---- MODULE Spec2Model ----
(***************************************************************************)
(* A model of the libro-be service: the reference endpoints of             *)
(* routes/bible.py over the Book/Chapter/Verse tables, and the analysis    *)
(* cache (verse_summaries) driven by the endpoints of routes/analysis.py.  *)
(*                                                                         *)
(* Strings are sequences of one-character strings, so that split, strip,   *)
(* int() and the f-string formatting are computed character by character.  *)
(***************************************************************************)
EXTENDS Integers, Sequences, FiniteSets, TLC

VARIABLES
    shape,      \* the corpus: per book, the verse count of each of its chapters
    httpReq,    \* the last request sent to a stateless endpoint
    httpResp,   \* the response it got
    verseText,  \* verses.text, by verse id
    summaries,  \* the verse_summaries table, in insertion (id) order
    searchCache, \* the search_cache table, in insertion (id) order
    pc,         \* per client: where its analysis request stands
    req,        \* per client: the request it sent
    loc,        \* per client: the handler's local variables
    resp,       \* per client: the response it got
    started,    \* analysis requests started so far
    edits,      \* verse texts edited so far
    prophecies, \* the messianic_prophecies table
    jsonFile,   \* messianic_prophecies.json
    gen,        \* the generation script: its position and local variables
    imp,        \* the import script: its position and local variables
    saved       \* the records of every save of the generation script that completed

refVars == <<httpReq, httpResp>>

cacheVars == <<verseText, summaries, pc, req, loc, resp, started, edits>>

pipeVars == <<prophecies, jsonFile, gen, imp, saved>>

vars ==
    <<shape, httpReq, httpResp, verseText, summaries, searchCache, pc, req, loc, resp, started, edits,
      prophecies, jsonFile, gen, imp, saved>>

(***************************************************************************)
(* Bounds of the model.                                                    *)
(***************************************************************************)
MaxVerse == 2       \* verses of the longest chapter
MaxSlugLen == 3     \* characters of the longest book slug requested
MaxRequests == 2    \* analysis requests started in one behaviour
MaxPerspectives == 2 \* perspectives named in one analysis request
MaxEdits == 1       \* verse texts edited in one behaviour
MaxReferences == 2  \* fulfillment references of one prophecy
MaxProphecies == 2  \* records of messianic_prophecies.json
MaxCandidates == 3  \* candidates the external model proposes in one behaviour
MaxRuns == 2        \* runs of the generation script
MaxImports == 2     \* runs of the import script

(***************************************************************************)
(* Python string primitives.                                               *)
(***************************************************************************)
Digits == <<"0", "1", "2", "3", "4", "5", "6", "7", "8", "9">>

IsDigit(c) == \E i \in 1..10 : Digits[i] = c

DigitVal(c) == (CHOOSE i \in 1..10 : Digits[i] = c) - 1

IsSpace(c) == c = " "

\* str.lower() on one character of the alphabet
Lower(c) ==
    CASE c = "A" -> "a"
      [] c = "B" -> "b"
      [] c = "Z" -> "z"
      [] OTHER -> c

\* str.upper() on one character of the alphabet
Upper(c) ==
    CASE c = "a" -> "A"
      [] c = "b" -> "B"
      [] c = "z" -> "Z"
      [] OTHER -> c

IsAlpha(c) == c \in {"a", "b", "z", "A", "B", "Z"}

LowerStr(s) == [i \in 1..Len(s) |-> Lower(s[i])]

\* str.title(): a cased character is upper-cased when it follows an uncased
\* one (or starts the string) and lower-cased otherwise
Title(s) ==
    [i \in 1..Len(s) |->
        IF i = 1 \/ ~IsAlpha(s[i - 1]) THEN Upper(s[i]) ELSE Lower(s[i])]

\* str.replace(old, new) for single characters
Replace(s, old, new) == [i \in 1..Len(s) |-> IF s[i] = old THEN new ELSE s[i]]

\* str.strip(): leading and trailing whitespace removed
RECURSIVE LStrip(_)
LStrip(s) ==
    IF s # <<>> /\ IsSpace(Head(s)) THEN LStrip(Tail(s)) ELSE s

RECURSIVE RStrip(_)
RStrip(s) ==
    IF s # <<>> /\ IsSpace(s[Len(s)]) THEN RStrip(SubSeq(s, 1, Len(s) - 1)) ELSE s

Strip(s) == RStrip(LStrip(s))

\* sep in s
Contains(s, sep) == \E i \in 1..Len(s) : s[i] = sep

FirstIndex(s, sep) == CHOOSE i \in 1..Len(s) : s[i] = sep /\ \A j \in 1..(i - 1) : s[j] # sep

\* str.split(sep): every occurrence separates, empty tokens are kept
RECURSIVE Split(_, _)
Split(s, sep) ==
    IF ~Contains(s, sep) THEN <<s>>
    ELSE LET i == FirstIndex(s, sep)
         IN  <<SubSeq(s, 1, i - 1)>> \o Split(SubSeq(s, i + 1, Len(s)), sep)

\* str.split(sep, 1): split at the first occurrence only
SplitOnce(s, sep) ==
    IF ~Contains(s, sep) THEN <<s>>
    ELSE LET i == FirstIndex(s, sep)
         IN  <<SubSeq(s, 1, i - 1), SubSeq(s, i + 1, Len(s))>>

\* sep.join(parts)
RECURSIVE Join(_, _)
Join(parts, sep) ==
    IF parts = <<>> THEN <<>>
    ELSE IF Len(parts) = 1 THEN parts[1]
    ELSE parts[1] \o sep \o Join(Tail(parts), sep)

\* the digits of s read as a decimal number
RECURSIVE DecVal(_)
DecVal(s) ==
    IF s = <<>> THEN 0 ELSE 10 * DecVal(SubSeq(s, 1, Len(s) - 1)) + DigitVal(s[Len(s)])

AllDigits(s) == s # <<>> /\ \A i \in 1..Len(s) : IsDigit(s[i])

\* int(s) succeeds: surrounding whitespace, an optional sign, then digits
IntOk(s) ==
    LET t == Strip(s)
    IN  IF t # <<>> /\ t[1] = "-" THEN AllDigits(Tail(t)) ELSE AllDigits(t)

\* int(s), where it succeeds
IntOf(s) ==
    LET t == Strip(s)
    IN  IF t[1] = "-" THEN 0 - DecVal(Tail(t)) ELSE DecVal(t)

\* str(n) for an integer, as the f-strings format it
RECURSIVE NatStr(_)
NatStr(n) ==
    IF n < 10 THEN <<Digits[n + 1]>> ELSE NatStr(n \div 10) \o <<Digits[(n % 10) + 1]>>

IntStr(n) == IF n < 0 THEN <<"-">> \o NatStr(0 - n) ELSE NatStr(n)

(***************************************************************************)
(* hashlib.sha256 (FIPS 180-4) over a sequence of bytes.  A 32-bit word is *)
(* the pair <<high 16 bits, low 16 bits>>.                                 *)
(***************************************************************************)
RECURSIVE Xor16(_, _, _)
Xor16(x, y, n) ==
    IF n = 0 THEN 0 ELSE ((x + y) % 2) + 2 * Xor16(x \div 2, y \div 2, n - 1)

RECURSIVE And16(_, _, _)
And16(x, y, n) ==
    IF n = 0 THEN 0 ELSE ((x % 2) * (y % 2)) + 2 * And16(x \div 2, y \div 2, n - 1)

WXor(a, b) == <<Xor16(a[1], b[1], 16), Xor16(a[2], b[2], 16)>>

WAnd(a, b) == <<And16(a[1], b[1], 16), And16(a[2], b[2], 16)>>

WNot(a) == <<65535 - a[1], 65535 - a[2]>>

WAdd(a, b) ==
    LET lo == a[2] + b[2]
        hi == a[1] + b[1] + (lo \div 65536)
    IN  <<hi % 65536, lo % 65536>>

RECURSIVE RotR(_, _)
RotR(w, n) ==
    IF n >= 16 THEN RotR(<<w[2], w[1]>>, n - 16)
    ELSE IF n = 0 THEN w
    ELSE <<(w[1] \div 2^n) + (w[2] % 2^n) * 2^(16 - n),
           (w[2] \div 2^n) + (w[1] % 2^n) * 2^(16 - n)>>

ShR(w, n) ==
    IF n >= 16 THEN <<0, w[1] \div 2^(n - 16)>>
    ELSE <<w[1] \div 2^n, (w[2] \div 2^n) + (w[1] % 2^n) * 2^(16 - n)>>

Sha256K ==
    << <<17034, 12184>>, <<28983, 17553>>, <<46528, 64463>>, <<59829, 56229>>,
       <<14678, 49755>>, <<23025, 4593>>, <<37439, 33444>>, <<43804, 24277>>,
       <<55303, 43672>>, <<4739, 23297>>, <<9265, 34238>>, <<21772, 32195>>,
       <<29374, 23924>>, <<32990, 45566>>, <<39900, 1703>>, <<49563, 61812>>,
       <<58523, 27073>>, <<61374, 18310>>, <<4033, 40390>>, <<9228, 41420>>,
       <<11753, 11375>>, <<19060, 33962>>, <<23728, 43484>>, <<30457, 35034>>,
       <<38974, 20818>>, <<43057, 50797>>, <<45059, 10184>>, <<48985, 32711>>,
       <<50912, 3059>>, <<54695, 37191>>, <<1738, 25425>>, <<5161, 10599>>,
       <<10167, 2693>>, <<11803, 8504>>, <<19756, 28156>>, <<21304, 3347>>,
       <<25866, 29524>>, <<30314, 2747>>, <<33218, 51502>>, <<37490, 11397>>,
       <<41663, 59553>>, <<43034, 26187>>, <<49739, 35696>>, <<51052, 20899>>,
       <<53650, 59417>>, <<54937, 1572>>, <<62478, 13701>>, <<4202, 41072>>,
       <<6564, 49430>>, <<7735, 27656>>, <<10056, 30540>>, <<13488, 48309>>,
       <<14620, 3251>>, <<20184, 43594>>, <<23452, 51791>>, <<26670, 28659>>,
       <<29839, 33518>>, <<30885, 25455>>, <<33992, 30740>>, <<36039, 520>>,
       <<37054, 65530>>, <<42064, 27883>>, <<48889, 41975>>, <<50801, 30962>> >>

Sha256H0 ==
    << <<27145, 58983>>, <<47975, 44677>>, <<15470, 62322>>, <<42319, 62778>>,
       <<20750, 21119>>, <<39685, 26764>>, <<8067, 55723>>, <<23520, 52505>> >>

\* the message padded to a multiple of 64 bytes: 0x80, zeros, the bit length
Sha256Pad(m) ==
    LET bits == 8 * Len(m)
        zeros == [i \in 1..((55 - Len(m)) % 64) |-> 0]
    IN  m \o <<128>> \o zeros
          \o <<0, 0, 0, 0, (bits \div 16777216) % 256, (bits \div 65536) % 256,
               (bits \div 256) % 256, bits % 256>>

\* the sixteen big-endian words of block k (from 0) of the padded message
BlockWords(p, k) ==
    [t \in 1..16 |->
        LET o == 64 * k + 4 * (t - 1)
        IN  <<256 * p[o + 1] + p[o + 2], 256 * p[o + 3] + p[o + 4]>>]

\* the message schedule extended to 64 words
RECURSIVE Schedule(_)
Schedule(w) ==
    IF Len(w) = 64 THEN w
    ELSE LET t == Len(w) + 1
             s0 == WXor(WXor(RotR(w[t - 15], 7), RotR(w[t - 15], 18)), ShR(w[t - 15], 3))
             s1 == WXor(WXor(RotR(w[t - 2], 17), RotR(w[t - 2], 19)), ShR(w[t - 2], 10))
         IN  Schedule(Append(w, WAdd(WAdd(w[t - 16], s0), WAdd(w[t - 7], s1))))

\* the 64 rounds of the compression function from round t on, on the eight
\* working variables s (their number is read first, so that each round's
\* variables are computed before the next round starts)
RECURSIVE Rounds(_, _, _)
Rounds(s, w, t) ==
    IF Len(s) # 8 \/ t > 64 THEN s
    ELSE LET a == s[1]
             b == s[2]
             c == s[3]
             e == s[5]
             f == s[6]
             g == s[7]
             S1 == WXor(WXor(RotR(e, 6), RotR(e, 11)), RotR(e, 25))
             ch == WXor(WAnd(e, f), WAnd(WNot(e), g))
             temp1 == WAdd(WAdd(WAdd(s[8], S1), WAdd(ch, Sha256K[t])), w[t])
             S0 == WXor(WXor(RotR(a, 2), RotR(a, 13)), RotR(a, 22))
             maj == WXor(WXor(WAnd(a, b), WAnd(a, c)), WAnd(b, c))
             temp2 == WAdd(S0, maj)
         IN  Rounds(<<WAdd(temp1, temp2), a, b, c, WAdd(s[4], temp1), e, f, g>>, w, t + 1)

\* the hash state after blocks k, k+1, ... of the padded message
RECURSIVE Sha256Blocks(_, _, _)
Sha256Blocks(h, p, k) ==
    IF 64 * k >= Len(p) THEN h
    ELSE LET s == Rounds(h, Schedule(BlockWords(p, k)), 1)
         IN  Sha256Blocks([i \in 1..8 |-> WAdd(h[i], s[i])], p, k + 1)

HexDigits ==
    <<"0", "1", "2", "3", "4", "5", "6", "7", "8", "9", "a", "b", "c", "d", "e", "f">>

Hex16(x) ==
    <<HexDigits[(x \div 4096) + 1], HexDigits[((x \div 256) % 16) + 1],
      HexDigits[((x \div 16) % 16) + 1], HexDigits[(x % 16) + 1]>>

\* hashlib.sha256(bytes).hexdigest(): 64 hexadecimal characters
Sha256Hex(bytes) ==
    LET h == Sha256Blocks(Sha256H0, Sha256Pad(bytes), 0)
    IN  Hex16(h[1][1]) \o Hex16(h[1][2]) \o Hex16(h[2][1]) \o Hex16(h[2][2])
          \o Hex16(h[3][1]) \o Hex16(h[3][2]) \o Hex16(h[4][1]) \o Hex16(h[4][2])
          \o Hex16(h[5][1]) \o Hex16(h[5][2]) \o Hex16(h[6][1]) \o Hex16(h[6][2])
          \o Hex16(h[7][1]) \o Hex16(h[7][2]) \o Hex16(h[8][1]) \o Hex16(h[8][2])

\* str.encode('utf-8') on the characters verse texts are made of
Utf8(c) ==
    CASE c = " " -> 32
      [] c = "a" -> 97
      [] c = "b" -> 98
      [] c = "c" -> 99

Encode(text) == [i \in 1..Len(text) |-> Utf8(text[i])]

(***************************************************************************)
(* The corpus: the books, chapters and verses tables.                      *)
(***************************************************************************)
BookTable ==
    << [id |-> 1, name |-> <<"A", "b">>, abbreviation |-> <<"A">>, order_number |-> 1],
       [id |-> 2, name |-> <<"1", " ", "A", "b">>, abbreviation |-> <<"1", "A">>,
        order_number |-> 2],
       [id |-> 3, name |-> <<"B", "a">>, abbreviation |-> <<"B">>, order_number |-> 3] >>

BookIds == 1..Len(BookTable)

Books == {BookTable[i] : i \in BookIds}

\* the chapter layouts a book may have: the verse count of each chapter
Shapes == {<<MaxVerse>>, <<1, MaxVerse>>}

Corpora == [BookIds -> Shapes]

RECURSIVE SumSeq(_)
SumSeq(s) == IF s = <<>> THEN 0 ELSE Head(s) + SumSeq(Tail(s))

\* the chapters before book b, and the verses before chapter c of book b,
\* in canonical order: ids are dense and follow the reading order
ChaptersBefore(sh, b) == SumSeq([i \in 1..(b - 1) |-> Len(sh[i])])

VersesBefore(sh, b, c) ==
    SumSeq([i \in 1..(b - 1) |-> SumSeq(sh[i])]) + SumSeq(SubSeq(sh[b], 1, c - 1))

Chapters(sh) ==
    UNION {{[id |-> ChaptersBefore(sh, b) + c, book_id |-> b, chapter_number |-> c]
              : c \in 1..Len(sh[b])} : b \in BookIds}

Verses(sh) ==
    UNION {UNION {{[id |-> VersesBefore(sh, b, c) + v,
                    chapter_id |-> ChaptersBefore(sh, b) + c,
                    verse_number |-> v] : v \in 1..sh[b][c]}
              : c \in 1..Len(sh[b])} : b \in BookIds}

\* rows.order_by(Verse.verse_number)
RECURSIVE OrderByVerseNumber(_)
OrderByVerseNumber(rows) ==
    IF rows = {} THEN <<>>
    ELSE LET r == CHOOSE x \in rows : \A y \in rows : x.verse_number <= y.verse_number
         IN  <<r>> \o OrderByVerseNumber(rows \ {r})

\* column ILIKE pattern, for a pattern without the wildcards % and _ (the
\* alphabet of the model has neither): equality up to case
ILike(column, pattern) == LowerStr(column) = LowerStr(pattern)

(***************************************************************************)
(* GET /reference (routes/bible.py, get_by_reference).                     *)
(***************************************************************************)
NoVerses == <<>>

ErrorResponse(status, error) ==
    [status |-> status, error |-> error, book |-> 0, chapter |-> 0, verses |-> NoVerses]

\* the except clause narrowed to IndexError: a ValueError escapes the handler
InvalidFormatUncaught == ErrorResponse(500, "internal_error")

\* except (ValueError, IndexError): the 400 "Invalid reference format"
InvalidFormat == ErrorResponse(400, "invalid_format")

\* ':' in chapter_verse
HasColon(chapter_verse) == Contains(chapter_verse, ":")

\* the book query: name or abbreviation ILIKE book_name
MatchingBooks(book_name) ==
    {b \in Books : ILike(b.name, book_name) \/ ILike(b.abbreviation, book_name)}

\* the chapter query: filter_by(book_id, chapter_number)
MatchingChapters(sh, book, chapter_num) ==
    {c \in Chapters(sh) : c.book_id = book.id /\ c.chapter_number = chapter_num}

\* the verse part parsed: one number, or two around the first '-'
VersePartOk(verse_part) ==
    IF Contains(verse_part, "-")
    THEN LET se == SplitOnce(verse_part, "-") IN IntOk(se[1]) /\ IntOk(se[2])
    ELSE IntOk(verse_part)

StartVerseNum(verse_part) ==
    IF Contains(verse_part, "-") THEN IntOf(SplitOnce(verse_part, "-")[1])
    ELSE IntOf(verse_part)

EndVerseNum(verse_part) ==
    IF Contains(verse_part, "-") THEN IntOf(SplitOnce(verse_part, "-")[2])
    ELSE IntOf(verse_part)

\* the verse query without its upper bound
SelectVersesNoUpper(sh, chapter, start_verse_num, end_verse_num) ==
    OrderByVerseNumber({v \in Verses(sh) :
        /\ v.chapter_id = chapter.id
        /\ v.verse_number >= start_verse_num})

\* the verse query: the chapter's verses numbered start..end, by verse number
SelectVerses(sh, chapter, start_verse_num, end_verse_num) ==
    OrderByVerseNumber({v \in Verses(sh) :
        /\ v.chapter_id = chapter.id
        /\ v.verse_number >= start_verse_num
        /\ v.verse_number <= end_verse_num})

\* the handler from the chapter lookup on, for the book the query returned
ReferenceInBook(sh, book, chapter_num, verse_part) ==
    LET chapters == MatchingChapters(sh, book, chapter_num)
    IN  IF chapters = {} THEN {ErrorResponse(404, "chapter_not_found")}
        ELSE IF ~VersePartOk(verse_part) THEN {InvalidFormat}
        ELSE {LET verses == SelectVerses(sh, chapter, StartVerseNum(verse_part),
                                         EndVerseNum(verse_part))
              IN  IF verses = <<>> THEN ErrorResponse(404, "verses_not_found")
                  ELSE [status |-> 200, error |-> "none", book |-> book.id,
                        chapter |-> chapter.id, verses |-> verses]
                : chapter \in chapters}

\* the responses the handler can give to ?ref=raw (.first() without an
\* ORDER BY returns any of the rows that match)
get_by_reference(sh, raw) ==
    LET ref == Strip(raw)
    IN  IF ref = <<>> THEN {ErrorResponse(400, "ref_required")}
        ELSE LET parts == Split(ref, " ")
             IN  IF Len(parts) < 2 THEN {InvalidFormat}
                 ELSE LET book_name == Join(SubSeq(parts, 1, Len(parts) - 1), <<" ">>)
                          chapter_verse == parts[Len(parts)]
                      IN  IF ~HasColon(chapter_verse) THEN {InvalidFormat}
                          ELSE LET cv == SplitOnce(chapter_verse, ":")
                               IN  IF ~IntOk(cv[1]) THEN {InvalidFormat}
                                   ELSE IF MatchingBooks(book_name) = {}
                                   THEN {ErrorResponse(404, "book_not_found")}
                                   ELSE UNION {ReferenceInBook(sh, b, IntOf(cv[1]), cv[2])
                                                 : b \in MatchingBooks(book_name)}

(***************************************************************************)
(* GET /books/resolve/<book_slug> (routes/bible.py, resolve_book_slug).    *)
(***************************************************************************)
\* column ILIKE '%pattern%'
ILikeContains(column, pattern) ==
    \E i \in 1..(Len(column) - Len(pattern) + 1) :
        LowerStr(SubSeq(column, i, i + Len(pattern) - 1)) = LowerStr(pattern)

\* column ILIKE 'pattern%'
ILikePrefix(column, pattern) ==
    /\ Len(pattern) <= Len(column)
    /\ LowerStr(SubSeq(column, 1, Len(pattern))) = LowerStr(pattern)

\* book_slug.replace('-', ' ').title()
PotentialName(book_slug) == Title(Replace(book_slug, "-", " "))

\* the first query: name ILIKE potential_name
ExactBooks(potential_name) == {b \in Books : ILike(b.name, potential_name)}

\* the second query: the three patterns or-ed, no ORDER BY
PartialBooks(potential_name) ==
    {b \in Books : \/ ILikeContains(b.name, potential_name)
                   \/ ILikeContains(b.abbreviation, potential_name)
                   \/ ILikePrefix(b.name, potential_name)}

BookResponse(book) ==
    [status |-> 200, error |-> "none", book |-> book.id, chapter |-> 0, verses |-> NoVerses]

\* the responses the handler can give (.first() and books[0] take whichever
\* matching row the store returns first)
resolve_book_slug(book_slug) ==
    LET potential_name == PotentialName(book_slug)
    IN  IF ExactBooks(potential_name) # {}
        THEN {BookResponse(b) : b \in ExactBooks(potential_name)}
        ELSE IF PartialBooks(potential_name) # {}
        THEN {BookResponse(b) : b \in PartialBooks(potential_name)}
        ELSE {ErrorResponse(404, "book_not_found")}

\* the elements of a sequence
Elements(seq) == {seq[i] : i \in 1..Len(seq)}

\* the sequences of at most n elements of alphabet
RECURSIVE StringsUpTo(_, _)
StringsUpTo(alphabet, n) ==
    IF n = 0 THEN {<<>>}
    ELSE LET shorter == StringsUpTo(alphabet, n - 1)
         IN  shorter \cup {s \o <<c>> : s \in shorter, c \in alphabet}

(***************************************************************************)
(* The analysis cache (models.py, VerseSummary) and the endpoints of       *)
(* routes/analysis.py that read and write it.                              *)
(***************************************************************************)
Clients == {1, 2}

\* the members of TheologicalPerspective the model asks for
ValidPerspectives == {"catholic", "baptist"}

\* the texts a verse may hold
Texts == { <<"a">>, <<"a", " ", "b">> }

\* the corpus the analysis endpoints run on: one chapter per book
CacheCorpus == [b \in BookIds |-> <<MaxVerse>>]

CacheChapters == Chapters(CacheCorpus)

CacheVerses == Verses(CacheCorpus)

\* the verse ids the edits and the analysis requests are about, and the
\* (verse_range_start, verse_range_end) pairs requested: two verses, one
\* verse and an empty range
EditedVerses == {1, 2}

RangesAsked == { <<1, 2>>, <<2, 2>>, <<2, 1>> }

\* the 'perspectives' lists requested: valid names, and one invalid name
PerspectiveLists == StringsUpTo(ValidPerspectives, MaxPerspectives) \cup { <<"unknown">> }

\* every text a range asked for can have, and its digest, computed once
HashedTexts ==
    {Join(ts, <<" ">>) : ts \in StringsUpTo(Texts, 2) \ {<<>>}}

Sha256Table == [t \in HashedTexts |-> Sha256Hex(Encode(t))]

\* a digest of the first character only
generate_text_hash_of_head(text) == Sha256Table[SubSeq(text, 1, 1)]

\* VerseSummary.generate_text_hash
generate_text_hash(text) == Sha256Table[text]

VerseIds(verses) == {v.id : v \in verses}

\* the ids in start..end that exist, in id order (order_by(Verse.id))
RECURSIVE IdsInRange(_, _, _)
IdsInRange(ids, start_verse_id, end_verse_id) ==
    IF start_verse_id > end_verse_id THEN <<>>
    ELSE (IF start_verse_id \in ids THEN <<start_verse_id>> ELSE <<>>)
           \o IdsInRange(ids, start_verse_id + 1, end_verse_id)

VerseById(verses, id) == CHOOSE v \in verses : v.id = id

ChapterOf(chapters, verse) == CHOOSE c \in chapters : c.id = verse.chapter_id

BookOf(chapters, verse) == BookTable[ChapterOf(chapters, verse).book_id]

\* the reference of the start verse alone, whatever the end
DisplayReferenceOfStart(chapters, verses, start_verse_id, end_verse_id) ==
    LET start_verse == CHOOSE v \in verses : v.id = start_verse_id
        chapter == CHOOSE c \in chapters : c.id = start_verse.chapter_id
    IN  BookTable[chapter.book_id].name \o <<" ">> \o IntStr(chapter.chapter_number)
          \o <<":">> \o IntStr(start_verse.verse_number)

\* the reference of a range: "Book C:V", or "Book C:V-V" with the end
\* verse's number
DisplayReference(chapters, verses, start_verse_id, end_verse_id) ==
    LET start_verse == VerseById(verses, start_verse_id)
        end_verse == VerseById(verses, end_verse_id)
        head == BookOf(chapters, start_verse).name \o <<" ">>
                  \o IntStr(ChapterOf(chapters, start_verse).chapter_number) \o <<":">>
                  \o IntStr(start_verse.verse_number)
    IN  IF start_verse_id = end_verse_id THEN head
        ELSE head \o <<"-">> \o IntStr(end_verse.verse_number)

\* get_verse_text_and_reference: (combined_text, reference, error), and the
\* rows of the range it read
get_verse_text_and_reference(chapters, verses, texts, start_verse_id, end_verse_id) ==
    IF start_verse_id \notin VerseIds(verses) \/ end_verse_id \notin VerseIds(verses)
    THEN [verses |-> <<>>, text |-> <<>>, reference |-> <<>>,
          error |-> "verses_not_found"]
    ELSE LET ids == IdsInRange(VerseIds(verses), start_verse_id, end_verse_id)
         IN  IF ids = <<>>
             THEN [verses |-> <<>>, text |-> <<>>, reference |-> <<>>,
                   error |-> "no_verses_in_range"]
             ELSE [verses |-> [i \in 1..Len(ids) |-> [id |-> ids[i], text |-> texts[ids[i]]]],
                   text |-> Join([i \in 1..Len(ids) |-> texts[ids[i]]], <<" ">>),
                   reference |-> DisplayReference(chapters, verses, start_verse_id,
                                                   end_verse_id),
                   error |-> "none"]

\* validate_perspectives raises for a name outside the enumeration
PerspectivesValid(perspective_names) ==
    \A i \in 1..Len(perspective_names) : perspective_names[i] \in ValidPerspectives

\* the rows of the range, whatever text they were stored for
MatchingSummariesOfAnyText(table, start_verse_id, end_verse_id, text_hash) ==
    {i \in 1..Len(table) :
        /\ table[i].verse_range_start = start_verse_id
        /\ table[i].verse_range_end = end_verse_id}

\* the rows VerseSummary.query.filter_by(...) matches; .first() has no
\* ORDER BY and returns any one of them, or None (0) when there is none
MatchingSummaries(table, start_verse_id, end_verse_id, text_hash) ==
    {i \in 1..Len(table) :
        /\ table[i].verse_range_start = start_verse_id
        /\ table[i].verse_range_end = end_verse_id
        /\ table[i].selected_text_hash = text_hash}

FirstSummary(table, start_verse_id, end_verse_id, text_hash) ==
    IF MatchingSummaries(table, start_verse_id, end_verse_id, text_hash) = {} THEN {0}
    ELSE MatchingSummaries(table, start_verse_id, end_verse_id, text_hash)

EmptyMap == [k \in {} |-> <<>>]

\* no requested perspective taken for cached
FilteredPerspectivesNone(perspectives, stored) == EmptyMap

\* the loop over the requested perspectives that keeps the cached ones, as
\* the dict it builds (a later key replaces an earlier equal one)
RECURSIVE FilteredPerspectives(_, _)
FilteredPerspectives(perspectives, stored) ==
    IF perspectives = <<>> THEN EmptyMap
    ELSE LET n == Len(perspectives)
             filtered == FilteredPerspectives(SubSeq(perspectives, 1, n - 1), stored)
             perspective_key == perspectives[n]
         IN  IF perspective_key \in DOMAIN stored
             THEN [k \in DOMAIN filtered \cup {perspective_key} |->
                     IF k = perspective_key THEN stored[k] ELSE filtered[k]]
             ELSE filtered

\* the consensus loop: the cached analyses of the requested perspectives, in
\* request order
RECURSIVE ExistingAnalyses(_, _)
ExistingAnalyses(perspectives, stored) ==
    IF perspectives = <<>> THEN <<>>
    ELSE (IF Head(perspectives) \in DOMAIN stored
          THEN <<[perspective_name |-> Head(perspectives),
                  response_text |-> stored[Head(perspectives)].response_text,
                  cross_references |-> stored[Head(perspectives)].cross_references]>>
          ELSE <<>>)
           \o ExistingAnalyses(Tail(perspectives), stored)

AnalysisNames(analyses) == {analyses[i].perspective_name : i \in 1..Len(analyses)}

\* every requested perspective taken for missing
AllMissing(perspectives, existing_analyses) == perspectives

\* the requested perspectives no existing analysis is named after
RECURSIVE MissingPerspectives(_, _)
MissingPerspectives(perspectives, existing_analyses) ==
    IF perspectives = <<>> THEN <<>>
    ELSE (IF Head(perspectives) \notin AnalysisNames(existing_analyses)
          THEN <<Head(perspectives)>> ELSE <<>>)
           \o MissingPerspectives(Tail(perspectives), existing_analyses)

(***************************************************************************)
(* The Analyzer (ai_client.py, generate_verse_summary): one call to the    *)
(* external model per perspective asked for.                               *)
(***************************************************************************)
\* response.parsed when the external model gave nothing that parses
None == [perspective_name |-> "none", response_text |-> "none", cross_references |-> <<>>]

\* the fallback analysis of a perspective whose call raised
Placeholder(perspective) ==
    [perspective_name |-> perspective, response_text |-> "unavailable",
     cross_references |-> <<>>]

\* what one call can append for a perspective: an analysis the external
\* model wrote (it fills in perspective_name itself), None, or the fallback
AnalysesFor(perspective) ==
    {[perspective_name |-> q, response_text |-> "t1", cross_references |-> <<"x1">>]
        : q \in ValidPerspectives}
    \cup {None, Placeholder(perspective)}

RECURSIVE generate_verse_summary(_)
generate_verse_summary(perspectives) ==
    IF perspectives = <<>> THEN {<<>>}
    ELSE {<<a>> \o rest : a \in AnalysesFor(Head(perspectives)),
                           rest \in generate_verse_summary(Tail(perspectives))}

\* generate_question_response: the same loop, over the prompt of a question
generate_question_response(perspectives) == generate_verse_summary(perspectives)

\* no conversion taken to raise
NeverRaises(analyses) == FALSE

\* "Convert to storage format" raises: analysis.perspective_name of an
\* analysis that is None is an AttributeError
Raises(analyses) == \E i \in 1..Len(analyses) : analyses[i] = None

\* "Convert to storage format": perspectives_data, keyed by the name each
\* analysis carries (a later analysis replaces an earlier one of that name)
PerspectivesData(analyses) ==
    [k \in AnalysisNames(analyses) |->
        LET last == CHOOSE i \in 1..Len(analyses) :
                        /\ analyses[i].perspective_name = k
                        /\ \A j \in (i + 1)..Len(analyses) : analyses[j].perspective_name # k
        IN  [response_text |-> analyses[last].response_text,
             cross_references |-> analyses[last].cross_references]]

\* all_cross_references: the analyses' cross references, concatenated
RECURSIVE AllCrossReferences(_)
AllCrossReferences(analyses) ==
    IF analyses = <<>> THEN <<>>
    ELSE Head(analyses).cross_references \o AllCrossReferences(Tail(analyses))

\* dict.update(new)
Update(old, new) ==
    [k \in DOMAIN old \cup DOMAIN new |-> IF k \in DOMAIN new THEN new[k] ELSE old[k]]

\* a commit that leaves the table with the added objects alone
CommitReplacing(table, added, modified) == added

\* db.session.commit(): the unit of work inserts the objects added to the
\* session and updates the rows of loaded objects whose attributes it has
\* seen assigned (modified: row id -> new column values)
Commit(table, added, modified) ==
    [i \in 1..Len(table) |-> IF i \in DOMAIN modified THEN modified[i] ELSE table[i]]
        \o added

(***************************************************************************)
(* The analysis requests of the clients.                                   *)
(***************************************************************************)
NoRequest ==
    [endpoint |-> "none", verse_range_start |-> 0, verse_range_end |-> 0,
     perspectives |-> <<>>]

NoLocals ==
    [id |-> 0, peers |-> {}, verses |-> <<>>, verse_text |-> <<>>, text_hash |-> <<>>,
     cached_summary |-> 0, cached_perspectives |-> EmptyMap,
     existing_analyses |-> <<>>, missing_perspectives |-> <<>>]

NoResponse ==
    [status |-> 0, cached |-> FALSE, perspectives |-> EmptyMap, cross_references |-> <<>>]

AnalysisRequests(endpoint) ==
    {[endpoint |-> endpoint, verse_range_start |-> range[1], verse_range_end |-> range[2],
      perspectives |-> ps] : range \in RangesAsked, ps \in PerspectiveLists}

\* the other clients whose requests are between their lookup and their answer
InFlight(c) == {o \in Clients \ {c} : pc[o] \notin {"idle", "done"}}

\* client c gets its answer
Answer(c, request, locals, response) ==
    /\ pc' = [pc EXCEPT ![c] = "done"]
    /\ req' = [req EXCEPT ![c] = request]
    /\ loc' = [loc EXCEPT ![c] = locals]
    /\ resp' = [resp EXCEPT ![c] = response]

\* the handler of client c goes on at label
Continue(c, label, request, locals) ==
    /\ pc' = [pc EXCEPT ![c] = label]
    /\ req' = [req EXCEPT ![c] = request]
    /\ loc' = [loc EXCEPT ![c] = locals]
    /\ resp' = [resp EXCEPT ![c] = NoResponse]

ErrorAnswer(status) == [NoResponse EXCEPT !.status = status]

\* POST /summary up to the cache lookup: the request is answered (404, 400,
\* or 200 from the cache) or goes on to the Analyzer
SummaryLookup(c) ==
    /\ pc[c] \in {"idle", "done"}
    /\ started < MaxRequests
    /\ started' = started + 1
    /\ \E request \in AnalysisRequests("summary") :
        LET vt == get_verse_text_and_reference(CacheChapters, CacheVerses, verseText,
                      request.verse_range_start, request.verse_range_end)
            locals == [NoLocals EXCEPT !.id = started + 1, !.peers = InFlight(c)]
        IN  IF vt.error # "none" THEN Answer(c, request, locals, ErrorAnswer(404))
            ELSE IF ~PerspectivesValid(request.perspectives)
            THEN Answer(c, request, locals, ErrorAnswer(400))
            ELSE LET text_hash == generate_text_hash(vt.text)
                 IN  \E cached_summary \in FirstSummary(summaries, request.verse_range_start,
                                                        request.verse_range_end, text_hash) :
                        LET stored == IF cached_summary = 0 THEN EmptyMap
                                      ELSE summaries[cached_summary].perspectives
                            found == [locals EXCEPT !.verses = vt.verses,
                                                    !.verse_text = vt.text,
                                                    !.text_hash = text_hash,
                                                    !.cached_summary = cached_summary,
                                                    !.cached_perspectives = stored]
                            filtered_perspectives ==
                                FilteredPerspectives(request.perspectives, stored)
                        IN  IF cached_summary # 0 /\ DOMAIN filtered_perspectives # {}
                            THEN Answer(c, request, found,
                                     [status |-> 200, cached |-> TRUE,
                                      perspectives |-> filtered_perspectives,
                                      cross_references |->
                                          summaries[cached_summary].cross_references])
                            ELSE Continue(c, "analyzer", request, found)
    /\ UNCHANGED <<shape, searchCache, refVars, pipeVars, verseText, summaries, edits>>

\* POST /summary from the Analyzer's answer on: the analyses are converted
\* and committed to the cache, and the request is answered
SummaryCommit(c) ==
    /\ pc[c] = "analyzer"
    /\ req[c].endpoint = "summary"
    /\ \E analyses \in generate_verse_summary(req[c].perspectives) :
        IF Raises(analyses)
        THEN \* analysis.perspective_name raises, and the handler answers 500
             /\ summaries' = summaries
             /\ Answer(c, req[c], loc[c], ErrorAnswer(500))
        ELSE LET perspectives_data == PerspectivesData(analyses)
                 all_cross_references == AllCrossReferences(analyses)
                 summary == [verse_range_start |-> req[c].verse_range_start,
                             verse_range_end |-> req[c].verse_range_end,
                             selected_text_hash |-> loc[c].text_hash,
                             perspectives |-> perspectives_data,
                             cross_references |-> all_cross_references]
             IN  /\ summaries' =
                        IF loc[c].cached_summary = 0
                        THEN Commit(summaries, <<summary>>, EmptyMap)
                        ELSE \* cached_summary.perspectives.update(...) and
                             \* cross_references.extend(...) change the loaded
                             \* dict and list in place; the columns are plain
                             \* db.JSON and no attribute is assigned, so the
                             \* session has nothing recorded to update
                             Commit(summaries, <<>>, EmptyMap)
                 /\ Answer(c, req[c], loc[c],
                        [status |-> 200, cached |-> FALSE,
                         perspectives |-> perspectives_data,
                         cross_references |-> all_cross_references])
    /\ UNCHANGED <<shape, searchCache, refVars, pipeVars, verseText, started, edits>>

\* POST /scholarly-consensus: the cached analyses of the requested
\* perspectives are collected, the missing ones generated, and the request
\* is answered with the consensus report over all of them; the cache is read
\* once and never written
Consensus(c) ==
    /\ pc[c] \in {"idle", "done"}
    /\ started < MaxRequests
    /\ started' = started + 1
    /\ \E request \in AnalysisRequests("consensus") :
        LET vt == get_verse_text_and_reference(CacheChapters, CacheVerses, verseText,
                      request.verse_range_start, request.verse_range_end)
            locals == [NoLocals EXCEPT !.id = started + 1, !.peers = InFlight(c)]
        IN  IF vt.error # "none" THEN Answer(c, request, locals, ErrorAnswer(404))
            ELSE IF ~PerspectivesValid(request.perspectives)
            THEN Answer(c, request, locals, ErrorAnswer(400))
            ELSE LET text_hash == generate_text_hash(vt.text)
                 IN  \E cached_summary \in FirstSummary(summaries, request.verse_range_start,
                                                        request.verse_range_end, text_hash) :
                        LET stored == IF cached_summary = 0 THEN EmptyMap
                                      ELSE summaries[cached_summary].perspectives
                            existing_analyses ==
                                ExistingAnalyses(request.perspectives, stored)
                            missing_perspectives ==
                                IF Len(existing_analyses) < Len(request.perspectives)
                                THEN MissingPerspectives(request.perspectives,
                                                         existing_analyses)
                                ELSE <<>>
                        IN  \E analyses \in generate_verse_summary(missing_perspectives) :
                               LET found == [locals EXCEPT
                                                !.verses = vt.verses,
                                                !.verse_text = vt.text,
                                                !.text_hash = text_hash,
                                                !.cached_summary = cached_summary,
                                                !.cached_perspectives = stored,
                                                !.existing_analyses =
                                                    existing_analyses \o analyses,
                                                !.missing_perspectives =
                                                    missing_perspectives]
                               IN  IF Raises(analyses)
                                   THEN \* analysis.perspective_name raises
                                        Answer(c, request, found, ErrorAnswer(500))
                                   ELSE Answer(c, request, found,
                                            [status |-> 200, cached |-> FALSE,
                                             perspectives |->
                                                 PerspectivesData(found.existing_analyses),
                                             cross_references |-> <<>>])
    /\ UNCHANGED <<shape, searchCache, refVars, pipeVars, verseText, summaries, edits>>

\* a question handler that stored its answer as the summary handler does
QuestionCached(c) ==
    /\ pc[c] \in {"idle", "done"}
    /\ started < MaxRequests
    /\ started' = started + 1
    /\ \E request \in AnalysisRequests("question") :
        /\ summaries' = Append(summaries,
               [verse_range_start |-> request.verse_range_start,
                verse_range_end |-> request.verse_range_end,
                selected_text_hash |-> <<>>,
                perspectives |-> EmptyMap, cross_references |-> <<>>])
        /\ Answer(c, request, NoLocals, ErrorAnswer(200))
    /\ UNCHANGED <<shape, searchCache, refVars, pipeVars, verseText, edits>>

\* POST /question: the answer is generated for the requested perspectives and
\* returned; the cache is neither read nor written
Question(c) ==
    /\ pc[c] \in {"idle", "done"}
    /\ started < MaxRequests
    /\ started' = started + 1
    /\ \E request \in AnalysisRequests("question") :
        LET vt == get_verse_text_and_reference(CacheChapters, CacheVerses, verseText,
                      request.verse_range_start, request.verse_range_end)
            locals == [NoLocals EXCEPT !.id = started + 1, !.peers = InFlight(c)]
        IN  IF vt.error # "none" THEN Answer(c, request, locals, ErrorAnswer(404))
            ELSE IF ~PerspectivesValid(request.perspectives)
            THEN Answer(c, request, locals, ErrorAnswer(400))
            ELSE \E analyses \in generate_question_response(request.perspectives) :
                    LET found == [locals EXCEPT !.verses = vt.verses,
                                                !.verse_text = vt.text]
                    IN  IF Raises(analyses)
                        THEN Answer(c, request, found, ErrorAnswer(500))
                        ELSE Answer(c, request, found,
                                 [status |-> 200, cached |-> FALSE,
                                  perspectives |-> PerspectivesData(analyses),
                                  cross_references |-> AllCrossReferences(analyses)])
    /\ UNCHANGED <<shape, searchCache, refVars, pipeVars, verseText, summaries, edits>>

\* the corpus is reseeded with another text for one verse
EditVerse ==
    /\ edits < MaxEdits
    /\ edits' = edits + 1
    /\ \E v \in EditedVerses, t \in Texts :
        /\ t # verseText[v]
        /\ verseText' = [verseText EXCEPT ![v] = t]
    /\ UNCHANGED <<shape, searchCache, refVars, pipeVars, summaries, pc, req, loc, resp, started>>

(***************************************************************************)
(* GET /verses/range (routes/bible.py, get_verse_range).                   *)
(***************************************************************************)
\* rows.order_by(Verse.id)
RECURSIVE OrderById(_)
OrderById(rows) ==
    IF rows = {} THEN <<>>
    ELSE LET r == CHOOSE x \in rows : \A y \in rows : x.id <= y.id
         IN  <<r>> \o OrderById(rows \ {r})

\* the response to ?start=start&end=end, where 0 stands for a parameter that
\* is absent (or given as 0: "if not start_verse_id" takes both the same way)
get_verse_range(sh, start, end) ==
    IF start = 0 THEN ErrorResponse(400, "start_required")
    ELSE LET start_verse_id == start
             end_verse_id == IF end = 0 THEN start ELSE end
             ids == VerseIds(Verses(sh))
         IN  IF start_verse_id \notin ids \/ end_verse_id \notin ids
             THEN ErrorResponse(404, "verses_not_found")
             ELSE [status |-> 200, error |-> "none", book |-> 0, chapter |-> 0,
                   verses |-> OrderById({v \in Verses(sh) :
                                 start_verse_id <= v.id /\ v.id <= end_verse_id}),
                   reference |-> DisplayReference(Chapters(sh), Verses(sh),
                                                  start_verse_id, end_verse_id)]

(***************************************************************************)
(* Prophecy records: the candidates of messianic_prophecies.json and the   *)
(* rows import_prophecies.py makes of them (models.py, MessianicProphecy). *)
(***************************************************************************)
\* the members of ProphecyCategory and FulfillmentType the model uses
ProphecyCategories == {"ministry_mission", "kingdom_reign"}

FulfillmentTypes == {"direct", "typological"}

\* the corpus the prophecy records refer to: two chapters per book
ProphecyCorpus == [b \in BookIds |-> <<MaxVerse, MaxVerse>>]

ProphecyChapters == Chapters(ProphecyCorpus)

ProphecyVerses == Verses(ProphecyCorpus)

\* get_verse_id: the id of the verse of that book name, chapter number and
\* verse number; 0 stands for the ValueError it raises when there is none
get_verse_id(chapters, verses, book_name, chapter, verse) ==
    LET found == {v \in verses :
                    /\ v.verse_number = verse
                    /\ \E c \in chapters :
                          /\ c.id = v.chapter_id
                          /\ c.chapter_number = chapter
                          /\ BookTable[c.book_id].name = book_name}
    IN  IF found = {} THEN 0 ELSE (CHOOSE v \in found : TRUE).id

\* convert_fulfillment_references_to_verse_ids without the try/except: a
\* reference that does not resolve is kept, with 0 for the id not found
RECURSIVE convert_fulfillment_references_keeping_unresolved(_, _, _)
convert_fulfillment_references_keeping_unresolved(chapters, verses, fulfillment_refs) ==
    IF fulfillment_refs = <<>> THEN <<>>
    ELSE LET ref == Head(fulfillment_refs)
         IN  <<[book_name |-> ref.book_name, chapter |-> ref.chapter,
                verse_start |-> ref.verse_start, verse_end |-> ref.verse_end,
                verse_start_id |->
                    get_verse_id(chapters, verses, ref.book_name, ref.chapter,
                                 ref.verse_start),
                verse_end_id |->
                    get_verse_id(chapters, verses, ref.book_name, ref.chapter,
                                 ref.verse_end),
                fulfillment_type |-> ref.fulfillment_type]>>
             \o convert_fulfillment_references_keeping_unresolved(
                    chapters, verses, Tail(fulfillment_refs))

\* convert_fulfillment_references_to_verse_ids: a reference whose start or
\* end verse is not found is skipped with a warning, the others are kept
RECURSIVE convert_fulfillment_references_to_verse_ids(_, _, _)
convert_fulfillment_references_to_verse_ids(chapters, verses, fulfillment_refs) ==
    IF fulfillment_refs = <<>> THEN <<>>
    ELSE LET ref == Head(fulfillment_refs)
             verse_start_id ==
                 get_verse_id(chapters, verses, ref.book_name, ref.chapter, ref.verse_start)
             verse_end_id ==
                 get_verse_id(chapters, verses, ref.book_name, ref.chapter, ref.verse_end)
             rest == convert_fulfillment_references_to_verse_ids(
                         chapters, verses, Tail(fulfillment_refs))
         IN  IF verse_start_id = 0 \/ verse_end_id = 0 THEN rest
             ELSE <<[book_name |-> ref.book_name, chapter |-> ref.chapter,
                     verse_start |-> ref.verse_start, verse_end |-> ref.verse_end,
                     verse_start_id |-> verse_start_id, verse_end_id |-> verse_end_id,
                     fulfillment_type |-> ref.fulfillment_type]>> \o rest

\* import_prophecy returns None
NoProphecy ==
    [claim |-> <<>>, category |-> "none", prophecy_verse_start |-> 0,
     prophecy_verse_end |-> 0, fulfillment_references |-> <<>>]

\* import_prophecy: the MessianicProphecy made of a record of the JSON file,
\* or None when the prophecy reference does not resolve or the category is
\* not a ProphecyCategory (the ValueError is caught and reported)
import_prophecy(chapters, verses, prophecy_data) ==
    LET prophecy_start_id ==
            get_verse_id(chapters, verses, prophecy_data.prophecy_reference.book_name,
                         prophecy_data.prophecy_reference.chapter,
                         prophecy_data.prophecy_reference.verse_start)
        prophecy_end_id ==
            get_verse_id(chapters, verses, prophecy_data.prophecy_reference.book_name,
                         prophecy_data.prophecy_reference.chapter,
                         prophecy_data.prophecy_reference.verse_end)
    IN  IF prophecy_start_id = 0 \/ prophecy_end_id = 0 THEN NoProphecy
        ELSE IF prophecy_data.category \notin ProphecyCategories THEN NoProphecy
        ELSE [claim |-> prophecy_data.claim,
              category |-> prophecy_data.category,
              prophecy_verse_start |-> prophecy_start_id,
              prophecy_verse_end |-> prophecy_end_id,
              fulfillment_references |->
                  convert_fulfillment_references_to_verse_ids(
                      chapters, verses, prophecy_data.fulfillment_references)]

\* a prophecy reference, a fulfillment reference and a candidate record, as
\* the JSON file holds them
Reference(book_name, chapter, verse_start, verse_end) ==
    [book_name |-> book_name, chapter |-> chapter,
     verse_start |-> verse_start, verse_end |-> verse_end]

Fulfillment(book_name, chapter, verse_start, verse_end, fulfillment_type) ==
    [book_name |-> book_name, chapter |-> chapter, verse_start |-> verse_start,
     verse_end |-> verse_end, fulfillment_type |-> fulfillment_type]

Candidate(claim, category, prophecy_reference, fulfillment_references) ==
    [claim |-> claim, category |-> category, prophecy_reference |-> prophecy_reference,
     fulfillment_references |-> fulfillment_references]

\* the rows the import adds for the records of a file, in order
RECURSIVE ImportAll(_, _, _)
ImportAll(chapters, verses, prophecies_data) ==
    IF prophecies_data = <<>> THEN <<>>
    ELSE LET prophecy == import_prophecy(chapters, verses, Head(prophecies_data))
         IN  (IF prophecy = NoProphecy THEN <<>> ELSE <<prophecy>>)
               \o ImportAll(chapters, verses, Tail(prophecies_data))

(***************************************************************************)
(* The chapter queries over messianic_prophecies (routes/prophecy.py,      *)
(* get_chapter_prophecies, and routes/bible.py, get_book_chapter).         *)
(***************************************************************************)
\* the characters of the JSON keys and values written and searched for
K_BOOK_NAME == <<"\"", "b", "o", "o", "k", "_", "n", "a", "m", "e", "\"", ":", " ">>

K_CHAPTER == <<",", " ", "\"", "c", "h", "a", "p", "t", "e", "r", "\"", ":", " ">>

K_VERSE_START == <<",", " ", "\"", "v", "e", "r", "s", "e", "_", "s", "t", "a", "r", "t", "\"", ":", " ">>

K_VERSE_END == <<",", " ", "\"", "v", "e", "r", "s", "e", "_", "e", "n", "d", "\"", ":", " ">>

K_VERSE_START_ID == <<",", " ", "\"", "v", "e", "r", "s", "e", "_", "s", "t", "a", "r", "t", "_", "i", "d", "\"", ":", " ">>

K_VERSE_END_ID == <<",", " ", "\"", "v", "e", "r", "s", "e", "_", "e", "n", "d", "_", "i", "d", "\"", ":", " ">>

K_FULFILLMENT_TYPE == <<",", " ", "\"", "f", "u", "l", "f", "i", "l", "l", "m", "e", "n", "t", "_", "t", "y", "p", "e", "\"", ":", " ">>

VERSE_START_ID == <<"\"", "v", "e", "r", "s", "e", "_", "s", "t", "a", "r", "t", "_", "i", "d", "\"", ":", " ">>

DIRECT == <<"d", "i", "r", "e", "c", "t">>

TYPOLOGICAL == <<"t", "y", "p", "o", "l", "o", "g", "i", "c", "a", "l">>

\* the characters of a fulfillment type
TypeChars(fulfillment_type) ==
    CASE fulfillment_type = "direct" -> DIRECT
      [] fulfillment_type = "typological" -> TYPOLOGICAL
      [] OTHER -> <<"?">>

JsonString(chars) == <<"\"">> \o chars \o <<"\"">>

\* json.dumps of one converted reference: the keys in insertion order, with
\* ", " and ": " as separators
JsonReference(ref) ==
    <<"{">> \o K_BOOK_NAME \o JsonString(ref.book_name)
      \o K_CHAPTER \o IntStr(ref.chapter)
      \o K_VERSE_START \o IntStr(ref.verse_start)
      \o K_VERSE_END \o IntStr(ref.verse_end)
      \o K_VERSE_START_ID \o IntStr(ref.verse_start_id)
      \o K_VERSE_END_ID \o IntStr(ref.verse_end_id)
      \o K_FULFILLMENT_TYPE \o JsonString(TypeChars(ref.fulfillment_type)) \o <<"}">>

\* fulfillment_references::text, the JSON text the column stores
RECURSIVE JsonReferences(_)
JsonReferences(refs) ==
    IF refs = <<>> THEN <<>>
    ELSE IF Len(refs) = 1 THEN JsonReference(refs[1])
    ELSE JsonReference(refs[1]) \o <<",", " ">> \o JsonReferences(Tail(refs))

JsonText(refs) == <<"[">> \o JsonReferences(refs) \o <<"]">>

\* text LIKE '%infix%': infix occurs in text, where a _ of the pattern stands
\* for any one character
Like(text, infix) ==
    \E i \in 1..(Len(text) - Len(infix) + 1) :
        \A j \in 1..Len(infix) : infix[j] = "_" \/ text[i + j - 1] = infix[j]

\* f'%"verse_start_id": {verse_id}%' without its two % signs
VersePattern(verse_id) == VERSE_START_ID \o IntStr(verse_id)

\* every row, whatever its verses
ProphecyQueryAll(table, verse_ids) == 1..Len(table)

\* MessianicProphecy.query.filter(or_(prophecy_verse_start.in_(verse_ids),
\* prophecy_verse_end.in_(verse_ids))): the ids of the rows
ProphecyQuery(table, verse_ids) ==
    {i \in 1..Len(table) :
        table[i].prophecy_verse_start \in verse_ids
            \/ table[i].prophecy_verse_end \in verse_ids}

\* the rows the LIKE query finds for one verse id or another
FulfillmentQuery(table, verse_ids) ==
    {i \in 1..Len(table) :
        \E verse_id \in verse_ids :
            Like(JsonText(table[i].fulfillment_references), VersePattern(verse_id))}

VerseNumber(verses, id) == (CHOOSE v \in verses : v.id = id).verse_number

ChapterIdOf(verses, id) == (CHOOSE v \in verses : v.id = id).chapter_id

\* the 'fulfillment_verses' entries of the rows selected
FulfillmentEntries(table, selected, verse_ids) ==
    {[prophecy_id |-> i,
      verse_numbers |-> table[i].fulfillment_references[k].verse_start
                            ..table[i].fulfillment_references[k].verse_end,
      fulfillment_type |-> table[i].fulfillment_references[k].fulfillment_type]
        : <<i, k>> \in {ik \in selected \X (1..MaxReferences) :
                          /\ ik[2] <= Len(table[ik[1]].fulfillment_references)
                          /\ table[ik[1]].fulfillment_references[ik[2]].verse_start_id
                                \in verse_ids}}

ChapterError(status, error) ==
    [status |-> status, error |-> error, prophecy_query |-> {}, fulfillment_query |-> {},
     prophecy_verses |-> {}, fulfillment_verses |-> {}, prophecies |-> {}]

\* GET /prophecy/chapter/<book_id>/<chapter_number>
get_chapter_prophecies(chapters, verses, table, book_id, chapter_number) ==
    LET found == {c \in chapters : c.book_id = book_id /\ c.chapter_number = chapter_number}
    IN  IF found = {} THEN ChapterError(404, "chapter_not_found")
        ELSE LET chapter == CHOOSE c \in found : TRUE
                 verse_ids == {v.id : v \in {v \in verses : v.chapter_id = chapter.id}}
                 prophecy_verses == ProphecyQuery(table, verse_ids)
                 fulfillment_prophecies == FulfillmentQuery(table, verse_ids)
             IN  [status |-> 200, error |-> "none",
                  prophecy_query |-> prophecy_verses,
                  fulfillment_query |-> fulfillment_prophecies,
                  prophecy_verses |->
                      {[prophecy_id |-> i,
                        verse_numbers |->
                            VerseNumber(verses, table[i].prophecy_verse_start)
                              ..(IF table[i].prophecy_verse_end \in verse_ids
                                 THEN VerseNumber(verses, table[i].prophecy_verse_end)
                                 ELSE VerseNumber(verses, table[i].prophecy_verse_start))]
                          : i \in {i \in prophecy_verses :
                                     table[i].prophecy_verse_start \in verse_ids}},
                  fulfillment_verses |->
                      FulfillmentEntries(table, fulfillment_prophecies, verse_ids),
                  \* the full prophecy objects for the sidebar
                  prophecies |-> prophecy_verses \cup fulfillment_prophecies]

\* GET /books/<book_id>/chapters/<chapter_number>, its prophecy data (the
\* response has no list of full prophecy objects)
get_book_chapter(chapters, verses, table, book_id, chapter_number) ==
    IF book_id \notin BookIds THEN ChapterError(404, "book_not_found")
    ELSE LET listed == get_chapter_prophecies(chapters, verses, table, book_id,
                                              chapter_number)
         IN  IF listed.status = 404 THEN listed
             ELSE [listed EXCEPT !.prophecies = {}]

(***************************************************************************)
(* GET /search/grouped (routes/bible.py, search_verses_grouped) and the    *)
(* search_cache table.                                                     *)
(***************************************************************************)
\* the q parameters sent: none, one too short, and queries of three
\* characters and more, one of them with a blank to strip
SearchQueries ==
    { <<>>, <<"a", "b">>, <<"a", "b", "c">>, <<" ", "a", "b", "c">>,
      <<"b", "c", "a">>, <<"c", "c", "c">> }

\* the verse texts searched, by verse id
SearchTexts ==
    << <<"a", "b", "c">>, <<"a", "b", "c", "a">>, <<"b", "c", "a">>,
       <<"a", "a", "a">>, <<"a", "b", "c">>, <<"c", "a", "b">> >>

\* the queries that get as far as the cache
CachedQueries == {Strip(q) : q \in {x \in SearchQueries : Len(Strip(x)) >= 3}}

QueryHashTable == [q \in CachedQueries |-> Sha256Hex(Encode(q))]

\* SearchCache.generate_query_hash
generate_query_hash(query_text) == QueryHashTable[query_text]

\* the rows filter_by(query_hash=...) matches
CachedSearches(table, query_hash) ==
    {i \in 1..Len(table) : table[i].query_hash = query_hash}

\* Verse.text.ilike(f'%{query}%'): the ids of the verses that match
MatchingVerses(texts, query) ==
    {id \in DOMAIN texts : Like(LowerStr(texts[id]), LowerStr(query))}

\* .all() without ORDER BY: the rows in any order
Orders(ids) ==
    {o \in [1..Cardinality(ids) -> ids] :
        \A i, j \in 1..Cardinality(ids) : o[i] = o[j] => i = j}

\* one turn of "for verse in verses": the verse is counted in the group of
\* its book, and is kept as a sample if the group has fewer than three
AddVerse(book_groups, id) ==
    LET book == BookOf(CacheChapters, VerseById(CacheVerses, id)).id
        held == {i \in 1..Len(book_groups) : book_groups[i].book = book}
    IN  IF held = {}
        THEN Append(book_groups, [book |-> book, verse_count |-> 1, sample_verses |-> <<id>>])
        ELSE [i \in 1..Len(book_groups) |->
                IF i \in held
                THEN [book |-> book,
                      verse_count |-> book_groups[i].verse_count + 1,
                      sample_verses |->
                          IF Len(book_groups[i].sample_verses) < 3
                          THEN Append(book_groups[i].sample_verses, id)
                          ELSE book_groups[i].sample_verses]
                ELSE book_groups[i]]

\* "Group results by book", in dict (insertion) order
RECURSIVE GroupByBook(_, _)
GroupByBook(verses, book_groups) ==
    IF verses = <<>> THEN book_groups
    ELSE GroupByBook(Tail(verses), AddVerse(book_groups, Head(verses)))

\* grouped_results.sort(key=verse_count, reverse=True): a stable sort
RECURSIVE SortByVerseCount(_)
SortByVerseCount(groups) ==
    IF groups = <<>> THEN <<>>
    ELSE LET first == CHOOSE i \in 1..Len(groups) :
                          /\ \A j \in 1..Len(groups) :
                                 groups[j].verse_count <= groups[i].verse_count
                          /\ \A j \in 1..(i - 1) :
                                 groups[j].verse_count < groups[i].verse_count
         IN  <<groups[first]>>
               \o SortByVerseCount(SubSeq(groups, 1, first - 1)
                                     \o SubSeq(groups, first + 1, Len(groups)))

\* sum(group['verse_count'] for group in grouped_results)
RECURSIVE TotalVerses(_)
TotalVerses(groups) ==
    IF groups = <<>> THEN 0 ELSE Head(groups).verse_count + TotalVerses(Tail(groups))

\* the result of the search over the verses as the query returned them
SearchResult(query, verses) ==
    LET grouped_results == SortByVerseCount(GroupByBook(verses, <<>>))
    IN  [query |-> query, book_groups |-> grouped_results,
         total_books |-> Len(grouped_results),
         total_verses |-> TotalVerses(grouped_results)]

NoResult == [query |-> <<>>, book_groups |-> <<>>, total_books |-> 0, total_verses |-> 0]

SearchRequests == {[endpoint |-> "search_grouped", q |-> q] : q \in SearchQueries}

SearchLocals(id, peers, query, query_hash, result) ==
    [id |-> id, peers |-> peers, query |-> query, query_hash |-> query_hash,
     cached_search |-> 0, result |-> result]

SearchAnswer(status, cached, result) ==
    [status |-> status, cached |-> cached, result |-> result]

\* GET /search/grouped up to the result: the request is answered (400, or
\* 200 from the cache) or has its result and goes on to save it
SearchLookup(c) ==
    /\ pc[c] \in {"idle", "done"}
    /\ started < MaxRequests
    /\ started' = started + 1
    /\ \E request \in SearchRequests :
        LET query == Strip(request.q)
        IN  IF Len(query) < 3
            THEN Answer(c, request,
                        SearchLocals(started + 1, InFlight(c), query, <<>>, NoResult),
                        SearchAnswer(400, FALSE, NoResult))
            ELSE LET query_hash == generate_query_hash(query)
                     cached == CachedSearches(searchCache, query_hash)
                 IN  IF cached # {}
                     THEN \E cached_search \in cached :
                            Answer(c, request,
                                   [SearchLocals(started + 1, InFlight(c), query, query_hash,
                                                 NoResult)
                                       EXCEPT !.cached_search = cached_search],
                                   SearchAnswer(200, TRUE,
                                                searchCache[cached_search].result_data))
                     ELSE \E verses \in Orders(MatchingVerses(verseText, query)) :
                            Continue(c, "save", request,
                                     SearchLocals(started + 1, InFlight(c), query, query_hash,
                                                  SearchResult(query, verses)))
    /\ UNCHANGED <<shape, searchCache, refVars, pipeVars, verseText, summaries, edits>>

\* GET /search/grouped from db.session.add on: the row is inserted and the
\* request answered with the result; query_hash is unique, and when a row of
\* the hash is there the commit raises an IntegrityError, which nothing
\* catches: the request is answered 500
SearchSave(c) ==
    /\ pc[c] = "save"
    /\ IF CachedSearches(searchCache, loc[c].query_hash) # {}
       THEN /\ searchCache' = searchCache
            /\ Answer(c, req[c], loc[c], SearchAnswer(500, FALSE, NoResult))
       ELSE /\ searchCache' = Append(searchCache,
                                     [query_text |-> loc[c].query,
                                      query_hash |-> loc[c].query_hash,
                                      result_data |-> loc[c].result])
            /\ Answer(c, req[c], loc[c], SearchAnswer(200, FALSE, loc[c].result))
    /\ UNCHANGED <<shape, refVars, pipeVars, verseText, summaries, started, edits>>

(***************************************************************************)
(* generate_prophecies.py: the generation script and its output file.      *)
(***************************************************************************)
\* the source books processed, in order
BOOK_PRIORITY == << <<"A", "b">>, <<"B", "a">> >>

\* the length of the claim prefix compared by is_duplicate_prophecy
ClaimPrefixLen == 50

\* validate_verse_reference: the verse exists
validate_verse_reference(chapters, verses, book_name, chapter, verse) ==
    get_verse_id(chapters, verses, book_name, chapter, verse) # 0

\* validate_prophecy, without the check of the fulfillment types
validate_prophecy_any_type(chapters, verses, prophecy) ==
    LET prop_ref == prophecy.prophecy_reference
    IN  /\ prophecy.category \in ProphecyCategories
        /\ validate_verse_reference(chapters, verses, prop_ref.book_name,
                                    prop_ref.chapter, prop_ref.verse_start)
        /\ prop_ref.verse_end # prop_ref.verse_start =>
               validate_verse_reference(chapters, verses, prop_ref.book_name,
                                        prop_ref.chapter, prop_ref.verse_end)
        /\ \A i \in 1..Len(prophecy.fulfillment_references) :
               LET fulfill_ref == prophecy.fulfillment_references[i]
               IN  validate_verse_reference(chapters, verses, fulfill_ref.book_name,
                                            fulfill_ref.chapter, fulfill_ref.verse_start)

\* validate_prophecy: the category is enumerated, the prophecy reference
\* starts (and, when it is a range, ends) at a verse that exists, and every
\* fulfillment reference has an enumerated type and starts at a verse that
\* exists
validate_prophecy(chapters, verses, prophecy) ==
    LET prop_ref == prophecy.prophecy_reference
    IN  /\ prophecy.category \in ProphecyCategories
        /\ validate_verse_reference(chapters, verses, prop_ref.book_name,
                                    prop_ref.chapter, prop_ref.verse_start)
        /\ prop_ref.verse_end # prop_ref.verse_start =>
               validate_verse_reference(chapters, verses, prop_ref.book_name,
                                        prop_ref.chapter, prop_ref.verse_end)
        /\ \A i \in 1..Len(prophecy.fulfillment_references) :
               LET fulfill_ref == prophecy.fulfillment_references[i]
               IN  /\ fulfill_ref.fulfillment_type \in FulfillmentTypes
                   /\ validate_verse_reference(chapters, verses, fulfill_ref.book_name,
                                               fulfill_ref.chapter, fulfill_ref.verse_start)

\* f"{book_name}_{chapter}_{verse_start}_{verse_end}"
RefKey(ref) ==
    ref.book_name \o <<"_">> \o IntStr(ref.chapter) \o <<"_">> \o IntStr(ref.verse_start)
        \o <<"_">> \o IntStr(ref.verse_end)

\* claim.lower()[:50]
ClaimPrefix(claim) ==
    SubSeq(LowerStr(claim), 1, IF Len(claim) < ClaimPrefixLen THEN Len(claim)
                               ELSE ClaimPrefixLen)

\* is_duplicate_prophecy comparing the whole claims, case and all
is_duplicate_prophecy_whole_claim(new_prophecy, existing_prophecies) ==
    \E i \in 1..Len(existing_prophecies) :
        /\ RefKey(new_prophecy.prophecy_reference)
              = RefKey(existing_prophecies[i].prophecy_reference)
        /\ new_prophecy.claim = existing_prophecies[i].claim

\* is_duplicate_prophecy: an existing record has the same reference key and
\* the same lower-cased claim prefix
is_duplicate_prophecy(new_prophecy, existing_prophecies) ==
    \E i \in 1..Len(existing_prophecies) :
        /\ RefKey(new_prophecy.prophecy_reference)
              = RefKey(existing_prophecies[i].prophecy_reference)
        /\ ClaimPrefix(new_prophecy.claim) = ClaimPrefix(existing_prophecies[i].claim)

\* claims longer than the prefix compared: two that differ in the case of
\* the first character and after the prefix only, and one that differs in the
\* first character
Filler == [i \in 1..(ClaimPrefixLen - 1) |-> "x"]

ClaimA == <<"a">> \o Filler \o <<"y">>

ClaimAUpper == <<"A">> \o Filler \o <<"z">>

ClaimB == <<"b">> \o Filler \o <<"y">>

\* what the external model can answer with, one candidate at a time: sound
\* candidates (two of them with the same reference and claim prefix), and
\* candidates with a category or a fulfillment type outside the enumerations,
\* or with a prophecy or fulfillment reference that starts or ends at a verse
\* the corpus does not have
SoundFulfillment == Fulfillment(<<"B", "a">>, 1, 1, 1, "direct")

GeneratedCandidates ==
    LET ref == Reference(<<"A", "b">>, 1, 1, 1)
    IN  { Candidate(ClaimA, "kingdom_reign", ref, <<SoundFulfillment>>),
          Candidate(ClaimAUpper, "kingdom_reign", ref, <<SoundFulfillment>>),
          Candidate(ClaimB, "ministry_mission", ref, <<SoundFulfillment>>),
          Candidate(ClaimB, "unknown", ref, <<SoundFulfillment>>),
          Candidate(ClaimB, "kingdom_reign", ref,
                    <<SoundFulfillment, Fulfillment(<<"B", "a">>, 1, 1, 1, "unknown")>>),
          Candidate(ClaimB, "kingdom_reign", Reference(<<"A", "b">>, 3, 1, 1),
                    <<SoundFulfillment>>),
          Candidate(ClaimB, "kingdom_reign", Reference(<<"A", "b">>, 1, 1, MaxVerse + 1),
                    <<SoundFulfillment>>),
          Candidate(ClaimB, "kingdom_reign", Reference(<<"A", "b">>, 2, 1, 1),
                    <<SoundFulfillment, Fulfillment(<<"B", "a">>, 3, 1, 1, "direct")>>),
          Candidate(ClaimB, "kingdom_reign", Reference(<<"A", "b">>, 2, 1, MaxVerse),
                    <<SoundFulfillment,
                      Fulfillment(<<"B", "a">>, 1, 1, MaxVerse + 1, "direct")>>) }

\* the output file: absent, complete (the list json.dump wrote), or partial
\* (opened for writing, which truncates it, and not written to the end)
NoFile == [state |-> "absent", prophecies |-> <<>>]

PartialFile == [state |-> "partial", prophecies |-> <<>>]

CompleteFile(prophecies_list) == [state |-> "complete", prophecies |-> prophecies_list]

\* no candidate handled yet
NoCandidate == Candidate(<<>>, "none", Reference(<<>>, 0, 0, 0), <<>>)

\* the generation script: where it is, its runs and the candidates received
\* so far, the book of the loop, the records loaded at the start of the run,
\* existing_prophecies, the rest of new_prophecies, the candidate handled
\* last, and what was reported of each candidate of the run
GenAtRest ==
    [pc |-> "idle", runs |-> 0, generated |-> 0, book |-> 0, loaded |-> <<>>,
     existing_prophecies |-> <<>>, new_prophecies |-> <<>>, prophecy |-> NoCandidate,
     received |-> 0, outcomes |-> <<>>]

\* the import script: where it is, its runs, the records read, the index of
\* the loop, the rows added and not committed, the counts, and what
\* import_prophecy returned for each record
ImpAtRest ==
    [pc |-> "idle", runs |-> 0, prophecies_data |-> <<>>, i |-> 0, session |-> <<>>,
     imported_count |-> 0, skipped_count |-> 0, results |-> <<>>]

GenRunning == gen.pc \in {"generate", "validate", "dump"}

ImpRunning == imp.pc = "loop"

\* main up to the loop: the existing prophecies are loaded from the output
\* file; json.load raises on a file that is not complete
GenStart ==
    /\ ~GenRunning /\ ~ImpRunning
    /\ gen.runs < MaxRuns
    /\ gen' = IF jsonFile.state = "partial"
              THEN [gen EXCEPT !.pc = "failed", !.runs = gen.runs + 1]
              ELSE [gen EXCEPT !.pc = "generate", !.runs = gen.runs + 1, !.book = 1,
                               !.loaded = jsonFile.prophecies,
                               !.existing_prophecies = jsonFile.prophecies,
                               !.new_prophecies = <<>>, !.prophecy = NoCandidate,
                               !.received = 0,
                               !.outcomes = <<>>]
    /\ UNCHANGED <<shape, searchCache, refVars, cacheVars, prophecies, jsonFile, imp, saved>>

\* generate_prophecies_for_book: the candidates of the external model for the
\* book (none when the call fails)
GenBook ==
    /\ gen.pc = "generate"
    /\ \E new_prophecies \in StringsUpTo(GeneratedCandidates, MaxCandidates - gen.generated) :
        gen' = [gen EXCEPT !.pc = "validate",
                           !.new_prophecies = new_prophecies,
                           !.generated = gen.generated + Len(new_prophecies),
                           !.received = gen.received + Len(new_prophecies)]
    /\ UNCHANGED <<shape, searchCache, refVars, cacheVars, prophecies, jsonFile, imp, saved>>

\* the script stopping at a candidate it does not accept
Aborted(g, prophecy, outcome) ==
    [g EXCEPT !.pc = "failed", !.prophecy = prophecy]

\* the else branch of the loop: the candidate is reported as skipped and the
\* loop goes on with the next one
Skipped(g, prophecy, outcome) ==
    [g EXCEPT !.new_prophecies = Tail(g.new_prophecies), !.prophecy = prophecy,
              !.outcomes = Append(g.outcomes, outcome)]

\* one turn of "for prophecy in new_prophecies": the candidate is appended to
\* the existing prophecies if it is valid and no duplicate, and is reported
\* as skipped otherwise (validate_prophecy names what is invalid, a duplicate
\* gets the "Skipped invalid/duplicate prophecy" line alone)
GenCandidate ==
    /\ gen.pc = "validate"
    /\ gen.new_prophecies # <<>>
    /\ LET prophecy == Head(gen.new_prophecies)
       IN  IF ~validate_prophecy(ProphecyChapters, ProphecyVerses, prophecy)
           THEN gen' = Skipped(gen, prophecy, "invalid")
           ELSE IF is_duplicate_prophecy(prophecy, gen.existing_prophecies)
           THEN gen' = Skipped(gen, prophecy, "duplicate")
           ELSE gen' = [gen EXCEPT !.new_prophecies = Tail(gen.new_prophecies),
                                   !.prophecy = prophecy,
                                   !.existing_prophecies =
                                       Append(gen.existing_prophecies, prophecy),
                                   !.outcomes = Append(gen.outcomes, "added")]
    /\ UNCHANGED <<shape, searchCache, refVars, cacheVars, prophecies, jsonFile, imp, saved>>

\* save_prophecies, open(JSON_OUTPUT_FILE, 'w'): the file is truncated
GenOpen ==
    /\ gen.pc = "validate"
    /\ gen.new_prophecies = <<>>
    /\ jsonFile' = PartialFile
    /\ gen' = [gen EXCEPT !.pc = "dump"]
    /\ UNCHANGED <<shape, searchCache, refVars, cacheVars, prophecies, imp, saved>>

\* save_prophecies, json.dump and the close of the file: the existing
\* prophecies are in the file; the loop goes on with the next book, or ends
GenDump ==
    /\ gen.pc = "dump"
    /\ jsonFile' = CompleteFile(gen.existing_prophecies)
    /\ saved' = saved \cup Elements(gen.existing_prophecies)
    /\ gen' = IF gen.book < Len(BOOK_PRIORITY)
              THEN [gen EXCEPT !.pc = "generate", !.book = gen.book + 1]
              ELSE [gen EXCEPT !.pc = "done"]
    /\ UNCHANGED <<shape, searchCache, refVars, cacheVars, prophecies, imp>>

\* the generation script is killed: the file is as the last write left it,
\* and the next run starts from the file alone
GenCrash ==
    /\ GenRunning
    /\ gen' = [gen EXCEPT !.pc = "crashed"]
    /\ UNCHANGED <<shape, searchCache, refVars, cacheVars, prophecies, jsonFile, imp, saved>>

(***************************************************************************)
(* import_prophecies.py: the import script.                                *)
(***************************************************************************)
\* "Commit in batches of 50"
BatchSize == 50

\* main up to the loop without "db.session.query(MessianicProphecy).delete()":
\* the rows of earlier runs stay
ImpStartKeeping ==
    /\ ~GenRunning /\ ~ImpRunning
    /\ imp.runs < MaxImports
    /\ IF jsonFile.state = "absent"
       THEN imp' = [ImpAtRest EXCEPT !.pc = "done", !.runs = imp.runs + 1]
       ELSE IF jsonFile.state = "partial"
       THEN imp' = [ImpAtRest EXCEPT !.pc = "failed", !.runs = imp.runs + 1]
       ELSE imp' = [ImpAtRest EXCEPT !.pc = "loop", !.runs = imp.runs + 1, !.i = 1,
                                     !.prophecies_data = jsonFile.prophecies]
    /\ UNCHANGED <<shape, searchCache, refVars, cacheVars, prophecies, jsonFile, gen, saved>>

\* main up to the loop: without an input file the script reports it and
\* returns; json.load raises on a file that is not complete; otherwise the
\* table is cleared
ImpStart ==
    /\ ~GenRunning /\ ~ImpRunning
    /\ imp.runs < MaxImports
    /\ IF jsonFile.state = "absent"
       THEN /\ imp' = [ImpAtRest EXCEPT !.pc = "done", !.runs = imp.runs + 1]
            /\ prophecies' = prophecies
       ELSE IF jsonFile.state = "partial"
       THEN /\ imp' = [ImpAtRest EXCEPT !.pc = "failed", !.runs = imp.runs + 1]
            /\ prophecies' = prophecies
       ELSE /\ imp' = [ImpAtRest EXCEPT !.pc = "loop", !.runs = imp.runs + 1, !.i = 1,
                                        !.prophecies_data = jsonFile.prophecies]
            /\ prophecies' = <<>>
    /\ UNCHANGED <<shape, searchCache, refVars, cacheVars, jsonFile, gen, saved>>

\* one turn of "for i, prophecy_data in enumerate(prophecies_data)"
ImpRecord ==
    /\ imp.pc = "loop"
    /\ imp.i <= Len(imp.prophecies_data)
    /\ LET prophecy == import_prophecy(ProphecyChapters, ProphecyVerses,
                                       imp.prophecies_data[imp.i])
       IN  IF prophecy # NoProphecy
           THEN LET imported_count == imp.imported_count + 1
                    session == Append(imp.session, prophecy)
                IN  IF imported_count % BatchSize = 0
                    THEN /\ prophecies' = prophecies \o session
                         /\ imp' = [imp EXCEPT !.i = imp.i + 1, !.session = <<>>,
                                               !.imported_count = imported_count,
                                               !.results = Append(imp.results, prophecy)]
                    ELSE /\ prophecies' = prophecies
                         /\ imp' = [imp EXCEPT !.i = imp.i + 1, !.session = session,
                                               !.imported_count = imported_count,
                                               !.results = Append(imp.results, prophecy)]
           ELSE /\ prophecies' = prophecies
                /\ imp' = [imp EXCEPT !.i = imp.i + 1,
                                      !.skipped_count = imp.skipped_count + 1,
                                      !.results = Append(imp.results, NoProphecy)]
    /\ UNCHANGED <<shape, searchCache, refVars, cacheVars, jsonFile, gen, saved>>

\* the final commit
ImpCommit ==
    /\ imp.pc = "loop"
    /\ imp.i > Len(imp.prophecies_data)
    /\ prophecies' = prophecies \o imp.session
    /\ imp' = [imp EXCEPT !.pc = "done", !.session = <<>>]
    /\ UNCHANGED <<shape, searchCache, refVars, cacheVars, jsonFile, gen, saved>>

(***************************************************************************)
(* The requests sent to the stateless endpoints.                           *)
(***************************************************************************)
\* the decimal numerals written in references: one past the largest verse
\* number, so that a missing chapter and a missing verse are asked for
Numerals == {NatStr(n) : n \in 0..(MaxVerse + 1)}

BookWords ==
    { <<>>, <<"A", "b">>, <<"a", "B">>, <<"A">>, <<"1", " ", "A", "b">>, <<"1", "a">>,
      <<"B", "a">>, <<"1">>, <<"Z">>, <<"A", "b", " ">> }

ChapterWords == Numerals \cup { <<>>, <<"z">>, <<"-", "1">>, <<"1", "z">> }

VerseWords ==
    Numerals
    \cup {a \o <<"-">> \o b : a \in Numerals \cup {<<>>, <<"z">>},
                               b \in Numerals \cup {<<>>, <<"z">>}}
    \cup { <<>>, <<"z">>, <<"1", "-", "2", "-", "1">> }

Blanks == {<<>>, <<" ">>}

ReferenceStrings ==
    {lead \o book \o sep \o chap \o colon \o verse \o trail :
        lead \in Blanks, book \in BookWords, sep \in Blanks, chap \in ChapterWords,
        colon \in {<<>>, <<":">>}, verse \in VerseWords, trail \in Blanks}

SlugAlphabet == {"a", "b", "A", "1", "-", "z"}

\* a slug is a non-empty path segment
Slugs == StringsUpTo(SlugAlphabet, MaxSlugLen) \ {<<>>}

\* the largest verse id of a corpus, and the ?start= and ?end= values sent:
\* every id, 0 for an absent parameter, and an id no corpus has
MaxVerseId == Cardinality(BookIds) * (MaxVerse + 1)

IdsAsked == 0..(MaxVerseId + 1)

Requests ==
    {[endpoint |-> "reference", arg |-> r] : r \in ReferenceStrings}
    \cup {[endpoint |-> "resolve", arg |-> s] : s \in Slugs}
    \cup {[endpoint |-> "range", arg |-> <<a, b>>] : a \in IdsAsked, b \in IdsAsked}

\* the chapters asked for: every chapter, and a book and a chapter number
\* out of range
ChapterRequests ==
    {[endpoint |-> e, arg |-> <<b, c>>] :
        e \in {"chapter_prophecies", "book_chapter"},
        b \in 1..(Cardinality(BookIds) + 1), c \in 1..3}

\* the records imported before the chapters are asked for: prophecies of one
\* verse and of a whole chapter, fulfilled nowhere, at the first verse of the
\* corpus, at the last verse of the first chapter of the last book, at both,
\* or at a chapter that does not exist
StoredFulfillments ==
    { <<>>,
      <<Fulfillment(<<"A", "b">>, 1, 1, 1, "direct")>>,
      <<Fulfillment(<<"B", "a">>, 1, MaxVerse, MaxVerse, "direct")>>,
      <<Fulfillment(<<"B", "a">>, 1, MaxVerse, MaxVerse, "typological"),
        Fulfillment(<<"A", "b">>, 1, 1, 1, "direct")>>,
      <<Fulfillment(<<"B", "a">>, 3, 1, 1, "direct"),
        Fulfillment(<<"1", " ", "A", "b">>, 2, 1, 1, "direct")>> }

StoredCandidates ==
    {Candidate(<<"a">>, "kingdom_reign", r, fs) :
        r \in {Reference(<<"A", "b">>, 1, 1, MaxVerse),
               Reference(<<"1", " ", "A", "b">>, 2, 1, 1)},
        fs \in StoredFulfillments}

ImportedTables ==
    {ImportAll(ProphecyChapters, ProphecyVerses, file) :
        file \in StringsUpTo(StoredCandidates, MaxProphecies)}

Pending == [status |-> 0, error |-> "pending", book |-> 0, chapter |-> 0, verses |-> NoVerses]

GetByReference ==
    /\ httpReq.endpoint = "reference"
    /\ httpResp = Pending
    /\ httpResp' \in get_by_reference(shape, httpReq.arg)
    /\ UNCHANGED <<shape, searchCache, httpReq, cacheVars, pipeVars>>

ResolveBookSlug ==
    /\ httpReq.endpoint = "resolve"
    /\ httpResp = Pending
    /\ httpResp' \in resolve_book_slug(httpReq.arg)
    /\ UNCHANGED <<shape, searchCache, httpReq, cacheVars, pipeVars>>

GetVerseRange ==
    /\ httpReq.endpoint = "range"
    /\ httpResp = Pending
    /\ httpResp' = get_verse_range(shape, httpReq.arg[1], httpReq.arg[2])
    /\ UNCHANGED <<shape, searchCache, httpReq, cacheVars, pipeVars>>

GetChapterProphecies ==
    /\ httpReq.endpoint = "chapter_prophecies"
    /\ httpResp = Pending
    /\ httpResp' = get_chapter_prophecies(ProphecyChapters, ProphecyVerses, prophecies,
                                          httpReq.arg[1], httpReq.arg[2])
    /\ UNCHANGED <<shape, searchCache, httpReq, cacheVars, pipeVars>>

GetBookChapter ==
    /\ httpReq.endpoint = "book_chapter"
    /\ httpResp = Pending
    /\ httpResp' = get_book_chapter(ProphecyChapters, ProphecyVerses, prophecies,
                                    httpReq.arg[1], httpReq.arg[2])
    /\ UNCHANGED <<shape, searchCache, httpReq, cacheVars, pipeVars>>

\* no analysis request sent yet, no verse edited
ClientsAtRest ==
    /\ pc = [c \in Clients |-> "idle"]
    /\ req = [c \in Clients |-> NoRequest]
    /\ loc = [c \in Clients |-> NoLocals]
    /\ resp = [c \in Clients |-> NoResponse]
    /\ started = 0
    /\ edits = 0

\* neither script has run: no output file, no record saved
ScriptsAtRest ==
    /\ jsonFile = NoFile
    /\ gen = GenAtRest
    /\ imp = ImpAtRest
    /\ saved = {}

PipelineAtRest == prophecies = <<>> /\ ScriptsAtRest

InitRef ==
    /\ shape \in Corpora
    /\ httpReq \in Requests
    /\ httpResp = Pending
    /\ verseText = [id \in VerseIds(Verses(shape)) |-> <<"a">>]
    /\ summaries = <<>>
    /\ ClientsAtRest
    /\ searchCache = <<>>
    /\ PipelineAtRest

NextRef == GetByReference \/ ResolveBookSlug \/ GetVerseRange

SpecRef == InitRef /\ [][NextRef]_vars

NoHttpRequest == [endpoint |-> "none", arg |-> <<>>]

\* the verse texts as seeded
SeededTexts == [id \in VerseIds(CacheVerses) |-> <<"a">>]

\* the cache as it starts: empty, or holding the entry an earlier /summary
\* request for the catholic perspective of verses 1..2 inserted
SeededSummary ==
    LET analyses == <<[perspective_name |-> "catholic", response_text |-> "t0",
                       cross_references |-> <<"x0">>]>>
    IN  [verse_range_start |-> 1, verse_range_end |-> 2,
         selected_text_hash |-> generate_text_hash(
             get_verse_text_and_reference(CacheChapters, CacheVerses, SeededTexts, 1, 2).text),
         perspectives |-> PerspectivesData(analyses),
         cross_references |-> AllCrossReferences(analyses)]

InitialCaches == { <<>>, <<SeededSummary>> }

InitCache ==
    /\ shape = CacheCorpus
    /\ httpReq = NoHttpRequest
    /\ httpResp = Pending
    /\ verseText = SeededTexts
    /\ summaries \in InitialCaches
    /\ ClientsAtRest
    /\ searchCache = <<>>
    /\ PipelineAtRest

InitProphecy ==
    /\ shape = ProphecyCorpus
    /\ httpReq \in ChapterRequests
    /\ httpResp = Pending
    /\ verseText = [id \in VerseIds(ProphecyVerses) |-> <<"a">>]
    /\ summaries = <<>>
    /\ ClientsAtRest
    /\ searchCache = <<>>
    /\ prophecies \in ImportedTables
    /\ ScriptsAtRest

NextProphecy == GetChapterProphecies \/ GetBookChapter

SpecProphecy == InitProphecy /\ [][NextProphecy]_vars

InitPipeline ==
    /\ shape = ProphecyCorpus
    /\ httpReq = NoHttpRequest
    /\ httpResp = Pending
    /\ verseText = [id \in VerseIds(ProphecyVerses) |-> <<"a">>]
    /\ summaries = <<>>
    /\ ClientsAtRest
    /\ searchCache = <<>>
    /\ PipelineAtRest

\* the steps of the two scripts
NextScripts ==
    \/ GenStart
    \/ GenBook
    \/ GenCandidate
    \/ GenOpen
    \/ GenDump
    \/ ImpStart
    \/ ImpRecord
    \/ ImpCommit

NextPipeline == NextScripts \/ GenCrash

SpecPipeline == InitPipeline /\ [][NextPipeline]_vars

\* the file the scripts find: none, or one generated against a corpus that
\* had a third chapter of the first book, which this corpus has not
ForeignFile ==
    CompleteFile(<<Candidate(ClaimB, "kingdom_reign", Reference(<<"A", "b">>, 3, 1, 1),
                             <<SoundFulfillment>>),
                   Candidate(ClaimA, "kingdom_reign", Reference(<<"A", "b">>, 1, 1, 1),
                             <<SoundFulfillment>>)>>)

InitPipelineFair ==
    /\ shape = ProphecyCorpus
    /\ httpReq = NoHttpRequest
    /\ httpResp = Pending
    /\ verseText = [id \in VerseIds(ProphecyVerses) |-> <<"a">>]
    /\ summaries = <<>>
    /\ ClientsAtRest
    /\ searchCache = <<>>
    /\ prophecies = <<>>
    /\ jsonFile \in {NoFile, ForeignFile}
    /\ gen = GenAtRest
    /\ imp = ImpAtRest
    /\ saved = {}

\* the scripts when nothing kills them: a script that can take a step
\* eventually takes one
SpecPipelineFair == InitPipelineFair /\ [][NextScripts]_vars /\ WF_vars(NextScripts)

InitSearch ==
    /\ shape = CacheCorpus
    /\ httpReq = NoHttpRequest
    /\ httpResp = Pending
    /\ verseText = SearchTexts
    /\ summaries = <<>>
    /\ ClientsAtRest
    /\ searchCache = <<>>
    /\ PipelineAtRest

NextSearch ==
    \/ \E c \in Clients : SearchLookup(c)
    \/ \E c \in Clients : SearchSave(c)

SpecSearch == InitSearch /\ [][NextSearch]_vars

NextCache ==
    \/ \E c \in Clients : SummaryLookup(c)
    \/ \E c \in Clients : SummaryCommit(c)
    \/ \E c \in Clients : Consensus(c)
    \/ \E c \in Clients : Question(c)
    \/ EditVerse

SpecCache == InitCache /\ [][NextCache]_vars

(***************************************************************************)
(* Properties of the analysis cache.                                       *)
(***************************************************************************)
\* client c has its answer, and its handler looked the cache up
LookedUp(c) == pc[c] = "done" /\ loc[c].text_hash # <<>>

Requested(c) == {req[c].perspectives[i] : i \in 1..Len(req[c].perspectives)}

\* the split of the request of c against the entry its lookup found
Hits(c) == Requested(c) \cap DOMAIN loc[c].cached_perspectives

Misses(c) == Requested(c) \ DOMAIN loc[c].cached_perspectives

HitAnalyses(c) == [k \in Hits(c) |-> loc[c].cached_perspectives[k]]

\* the analyses /scholarly-consensus took from the cache: existing_analyses
\* before the generated ones were appended
CachedAnalyses(c) ==
    SubSeq(loc[c].existing_analyses, 1,
           Len(loc[c].existing_analyses) - Len(loc[c].missing_perspectives))

\* C1: against the entry stored under its (range, digest) key, a lookup
\* splits the request into hits, the requested perspectives the entry stores,
\* each with its stored analysis, and misses, the requested perspectives it
\* does not store.  /summary answers from the cache with exactly the hits, and
\* goes to the Analyzer only when there is no hit; /scholarly-consensus takes
\* exactly the hits from the cache and has exactly the misses generated.
C1_LookupSplitsHitsAndMisses ==
    \A c \in Clients :
        LookedUp(c) /\ loc[c].cached_summary # 0 =>
            /\ req[c].endpoint = "summary" /\ resp[c].cached =>
                    resp[c].perspectives = HitAnalyses(c)
            /\ req[c].endpoint = "summary" /\ ~resp[c].cached => Hits(c) = {}
            /\ req[c].endpoint = "consensus" =>
                    /\ PerspectivesData(CachedAnalyses(c)) = HitAnalyses(c)
                    /\ AnalysisNames(CachedAnalyses(c)) = Hits(c)
                    /\ Elements(loc[c].missing_perspectives) = Misses(c)

\* C1, its case: stored {catholic}, requested [catholic, baptist], and the
\* consensus lookup found hits = {catholic} and misses = {baptist}
C1_Witness ==
    \E c \in Clients :
        /\ LookedUp(c)
        /\ req[c].endpoint = "consensus"
        /\ req[c].perspectives = <<"catholic", "baptist">>
        /\ loc[c].cached_summary # 0
        /\ DOMAIN loc[c].cached_perspectives = {"catholic"}
        /\ AnalysisNames(CachedAnalyses(c)) = {"catholic"}
        /\ loc[c].missing_perspectives = <<"baptist">>

\* the lookup of c was a partial hit: the entry holds some, not all, of the
\* requested perspectives
PartialHit(c) == loc[c].cached_summary # 0 /\ Hits(c) # {} /\ Misses(c) # {}

\* the rows stored under the key of c's request
RowsOfKey(c) ==
    {summaries[i] : i \in MatchingSummaries(summaries, req[c].verse_range_start,
                                            req[c].verse_range_end, loc[c].text_hash)}

\* C2: once a /summary request whose lookup was a partial hit has completed,
\* every requested perspective is stored under the key and is in the answer.
C2_PartialHitCompleted ==
    \A c \in Clients :
        LookedUp(c) /\ req[c].endpoint = "summary" /\ PartialHit(c) =>
            /\ resp[c].status = 200
            /\ Requested(c) \subseteq DOMAIN resp[c].perspectives
            /\ \E row \in RowsOfKey(c) : Requested(c) \subseteq DOMAIN row.perspectives

\* client c is a writer: its /summary request generated analyses and
\* committed them
Wrote(c) ==
    /\ LookedUp(c)
    /\ req[c].endpoint = "summary"
    /\ resp[c].status = 200
    /\ ~resp[c].cached

\* C3: a merge into the cache creates the entry with exactly the generated
\* perspective keys when the key had none; when the lookup found an entry,
\* that entry afterwards has the generated keys with their new analyses and
\* every other key with the analysis it had, so that a later lookup finds the
\* old and the new keys.
C3_MergeSemantics ==
    \A c \in Clients :
        Wrote(c) =>
            IF loc[c].cached_summary = 0
            THEN \E row \in RowsOfKey(c) : row.perspectives = resp[c].perspectives
            ELSE LET entry == summaries[loc[c].cached_summary].perspectives
                 IN  /\ DOMAIN loc[c].cached_perspectives \cup DOMAIN resp[c].perspectives
                            \subseteq DOMAIN entry
                     /\ \A k \in DOMAIN loc[c].cached_perspectives
                                    \ DOMAIN resp[c].perspectives :
                            entry[k] = loc[c].cached_perspectives[k]

\* the request of y was looked up while the request of x was in flight
Overlapped(x, y) == x \in loc[y].peers /\ loc[x].id < loc[y].id

\* C4: when two /summary requests for the same (range, digest) ran
\* concurrently and generated disjoint perspective sets, then after both have
\* finished an entry under that key has the perspective keys of both.
C4_ConcurrentMergesSurvive ==
    \A x, y \in Clients :
        /\ Wrote(x) /\ Wrote(y) /\ Overlapped(x, y)
        /\ req[x].verse_range_start = req[y].verse_range_start
        /\ req[x].verse_range_end = req[y].verse_range_end
        /\ loc[x].text_hash = loc[y].text_hash
        /\ DOMAIN resp[x].perspectives # {} /\ DOMAIN resp[y].perspectives # {}
        /\ DOMAIN resp[x].perspectives \cap DOMAIN resp[y].perspectives = {}
        => \E row \in RowsOfKey(y) :
               DOMAIN resp[x].perspectives \cup DOMAIN resp[y].perspectives
                   \subseteq DOMAIN row.perspectives

\* the texts ts, each followed by one space but the last
RECURSIVE SpaceJoined(_)
SpaceJoined(ts) ==
    IF Len(ts) = 0 THEN <<>>
    ELSE IF Len(ts) = 1 THEN ts[1]
    ELSE ts[1] \o <<" ">> \o SpaceJoined(Tail(ts))

TextsRead(c) == [i \in 1..Len(loc[c].verses) |-> loc[c].verses[i].text]

\* the verse ids of the range of c's request
RangeIds(c) ==
    {id \in VerseIds(CacheVerses) :
        req[c].verse_range_start <= id /\ id <= req[c].verse_range_end}

\* C5: the digest a request is keyed by is the SHA-256 of the texts of the
\* verses of its range, in ascending verse-id order, joined by one space;
\* requests over the same verses with the same texts get the same digest, and
\* requests over the same verses of which one has another text get different
\* digests.
C5_DigestOfRangeTexts ==
    /\ \A c \in Clients :
        LookedUp(c) =>
            /\ {loc[c].verses[i].id : i \in 1..Len(loc[c].verses)} = RangeIds(c)
            /\ \A i, j \in 1..Len(loc[c].verses) :
                    i < j => loc[c].verses[i].id < loc[c].verses[j].id
            /\ edits = 0 =>
                    \A i \in 1..Len(loc[c].verses) :
                        loc[c].verses[i].text = verseText[loc[c].verses[i].id]
            /\ loc[c].text_hash = Sha256Table[SpaceJoined(TextsRead(c))]
    /\ \A x, y \in Clients :
        LookedUp(x) /\ LookedUp(y) /\ RangeIds(x) = RangeIds(y) =>
            (TextsRead(x) = TextsRead(y) <=> loc[x].text_hash = loc[y].text_hash)

\* C5, its case: two requests over verses 1..2, between which the text of a
\* verse changed, and their digests differ
C5_Witness ==
    \E x, y \in Clients :
        /\ LookedUp(x) /\ LookedUp(y)
        /\ RangeIds(x) = {1, 2} /\ RangeIds(y) = {1, 2}
        /\ \E i \in 1..2 : TextsRead(x)[i] # TextsRead(y)[i]
        /\ loc[x].text_hash # loc[y].text_hash

(***************************************************************************)
(* Properties of the chapter queries over the prophecies.                  *)
(***************************************************************************)
\* a chapter was asked for and found
ChapterAnswered ==
    /\ httpReq.endpoint \in {"chapter_prophecies", "book_chapter"}
    /\ httpResp # Pending
    /\ httpResp.status = 200

\* the verse ids of the chapter asked for
ChapterVerseIds ==
    {v.id : v \in {v \in ProphecyVerses :
        \E c \in ProphecyChapters :
            /\ c.id = v.chapter_id
            /\ c.book_id = httpReq.arg[1]
            /\ c.chapter_number = httpReq.arg[2]}}

\* prophecy i is anchored at verse id: its range starts or ends there
AnchoredAt(i, id) ==
    prophecies[i].prophecy_verse_start = id \/ prophecies[i].prophecy_verse_end = id

\* C12: for the verse ids of a chapter, the prophecy query returns exactly
\* the prophecies whose anchored range starts or ends at one of the ids, and
\* nothing when no prophecy starts or ends at any of them; the chapter
\* prophecies endpoint lists every one of them.
C12_ProphecyQueryExact ==
    ChapterAnswered =>
        /\ \A i \in 1..Len(prophecies) :
                i \in httpResp.prophecy_query <=> \E id \in ChapterVerseIds : AnchoredAt(i, id)
        /\ (\A id \in ChapterVerseIds : \A i \in 1..Len(prophecies) : ~AnchoredAt(i, id))
                => httpResp.prophecy_query = {}
        /\ httpReq.endpoint = "chapter_prophecies" =>
                httpResp.prophecy_query \subseteq httpResp.prophecies

\* C12, its case: of two prophecies, the query returned the one anchored in
\* the chapter and not the other
C12_Witness ==
    /\ ChapterAnswered
    /\ Len(prophecies) = 2
    /\ Cardinality(httpResp.prophecy_query) = 1
    /\ \E i \in httpResp.prophecy_query : \E id \in ChapterVerseIds : AnchoredAt(i, id)

\* the prophecies with a fulfillment reference that starts in the chapter
FulfilledInChapter ==
    {i \in 1..Len(prophecies) :
        \E k \in 1..Len(prophecies[i].fulfillment_references) :
            prophecies[i].fulfillment_references[k].verse_start_id \in ChapterVerseIds}

\* C13: the prophecies selected as fulfilled in a chapter, and listed as such
\* in the chapter response, are exactly those with at least one fulfillment
\* reference whose resolved start id is a verse id of the chapter.
C13_FulfillmentSelectionExact ==
    ChapterAnswered =>
        /\ httpResp.fulfillment_query = FulfilledInChapter
        /\ httpReq.endpoint = "chapter_prophecies" =>
                httpResp.prophecies = httpResp.prophecy_query \cup FulfilledInChapter

(***************************************************************************)
(* Properties of the reference endpoints.                                  *)
(***************************************************************************)
Answered(endpoint) == httpReq.endpoint = endpoint /\ httpResp # Pending

NoSpace(s) == \A i \in 1..Len(s) : s[i] # " "

\* no ':' stands after the last space of s
NoColonInLastToken(s) ==
    \A i \in 1..Len(s) : s[i] = ":" => \E j \in (i + 1)..Len(s) : s[j] = " "

IsInvalidFormat(response) ==
    response.status = 400 /\ response.error = "invalid_format" /\ response.verses = <<>>

\* C6 as stated: every reference string whose last space-delimited token has
\* no colon, or that has no space at all, gets the invalid-format error and
\* no verses.
C6_Original ==
    Answered("reference") =>
        LET ref == Strip(httpReq.arg)
        IN  (NoSpace(ref) \/ NoColonInLastToken(ref)) => IsInvalidFormat(httpResp)

\* C6 as amended: a reference that is not empty once trimmed, and whose last
\* space-delimited token has no colon or that has no space at all, gets the
\* invalid-format error and no verses; an empty or blank reference gets the
\* 400 "ref is required" error and no verses.
C6_MalformedRejected ==
    Answered("reference") =>
        LET ref == Strip(httpReq.arg)
        IN  /\ (ref # <<>> /\ (NoSpace(ref) \/ NoColonInLastToken(ref)))
                => IsInvalidFormat(httpResp)
            /\ ref = <<>>
                => httpResp.status = 400 /\ httpResp.error = "ref_required"
                   /\ httpResp.verses = <<>>

\* "Ab 1" (a book and a chapter, no colon) was rejected as malformed
C6_Witness ==
    /\ Answered("reference")
    /\ httpReq.arg = <<"A", "b", " ", "1">>
    /\ IsInvalidFormat(httpResp)

\* the last token of a trimmed reference that has a colon in it, cut at its
\* first colon, and the verse part cut at its first hyphen
LastSpace(s) == CHOOSE i \in 0..Len(s) :
    (i > 0 => s[i] = " ") /\ \A j \in (i + 1)..Len(s) : s[j] # " "

BookText(s) == SubSeq(s, 1, LastSpace(s) - 1)

LastToken(s) == SubSeq(s, LastSpace(s) + 1, Len(s))

ChapterText(s) == SubSeq(LastToken(s), 1, FirstIndex(LastToken(s), ":") - 1)

VerseText(s) ==
    SubSeq(LastToken(s), FirstIndex(LastToken(s), ":") + 1, Len(LastToken(s)))

\* a decimal integer: an optional minus sign and at least one digit
IsInteger(s) ==
    /\ s # <<>>
    /\ \A i \in 1..Len(s) : IsDigit(s[i]) \/ (i = 1 /\ s[i] = "-")
    /\ \E i \in 1..Len(s) : IsDigit(s[i])

\* the ends V1, V2 of the verse part "V1" or "V1-V2"
VerseEnds(s) ==
    IF Contains(s, "-")
    THEN <<SubSeq(s, 1, FirstIndex(s, "-") - 1), SubSeq(s, FirstIndex(s, "-") + 1, Len(s))>>
    ELSE <<s, s>>

WellFormedSplit(ref) == ref # <<>> /\ ~NoSpace(ref) /\ ~NoColonInLastToken(ref)

\* C7: a reference whose final token has a colon but whose chapter part or
\* verse part (either end of a range) is not an integer fails with the
\* invalid-format error, whatever the book name and the corpus; it is never
\* answered not-found or with verses.
C7_NonIntegerIsParseError ==
    Answered("reference") =>
        LET ref == Strip(httpReq.arg)
        IN  (/\ WellFormedSplit(ref)
             /\ \/ ~IsInteger(ChapterText(ref))
                \/ ~IsInteger(VerseEnds(VerseText(ref))[1])
                \/ ~IsInteger(VerseEnds(VerseText(ref))[2]))
            => IsInvalidFormat(httpResp)

\* the references "B C:V1-V2" with a book, an existing chapter and V1 > V2
ReversedRange(ref, sh) ==
    \E b \in Books, c \in 1..2, v1 \in 1..MaxVerse, v2 \in 1..MaxVerse :
        /\ v1 > v2
        /\ c <= Len(sh[b.id])
        /\ ref = b.name \o <<" ">> \o NatStr(c) \o <<":">> \o NatStr(v1) \o <<"-">> \o NatStr(v2)

Swapped(ref) ==
    BookText(ref) \o <<" ">> \o ChapterText(ref) \o <<":">>
        \o VerseEnds(VerseText(ref))[2] \o <<"-">> \o VerseEnds(VerseText(ref))[1]

\* C8: verse ranges are normalized so that start <= end: "B C:V1-V2" with
\* V1 > V2 resolves to the verse range that "B C:V2-V1" resolves to, and a
\* single verse number V resolves to the range V..V.
C8_RangeNormalized ==
    Answered("reference") =>
        /\ ReversedRange(httpReq.arg, shape)
              => httpResp \in get_by_reference(shape, Swapped(httpReq.arg))
        /\ (/\ httpResp.status = 200
            /\ ~Contains(VerseText(Strip(httpReq.arg)), "-"))
              => /\ Len(httpResp.verses) = 1
                 /\ IntStr(httpResp.verses[1].verse_number)
                      = NatStr(DecVal(VerseText(Strip(httpReq.arg))))

\* the rows of the verses table in chapter c of book b numbered v1..v2
VersesOf(sh, b, c, v1, v2) ==
    {v \in Verses(sh) :
        /\ \E ch \in Chapters(sh) :
              ch.id = v.chapter_id /\ ch.book_id = b.id /\ ch.chapter_number = c
        /\ v1 <= v.verse_number
        /\ v.verse_number <= v2}

Ascending(verses) ==
    \A i \in 1..(Len(verses) - 1) : verses[i].verse_number < verses[i + 1].verse_number

SignedVal(s) == IF s[1] = "-" THEN 0 - DecVal(Tail(s)) ELSE DecVal(s)

\* C9: a successful parse takes everything before the last space as the book
\* name, so that "1 Ab" names its own book and not "Ab", and returns exactly
\* the verses of chapter C of that book numbered V1..V2, in ascending order;
\* a reference to one existing verse of a book gives that verse alone, and
\* one to verses 1-2 of a chapter that has them gives the two.
C9_ParseReturnsTheRange ==
    Answered("reference") =>
        /\ httpResp.status = 200 =>
             LET ref == Strip(httpReq.arg)
                 ends == VerseEnds(VerseText(ref))
             IN  /\ WellFormedSplit(ref)
                 /\ \E b \in Books :
                      /\ \/ LowerStr(b.name) = LowerStr(BookText(ref))
                         \/ LowerStr(b.abbreviation) = LowerStr(BookText(ref))
                      /\ httpResp.book = b.id
                      /\ {httpResp.verses[i] : i \in 1..Len(httpResp.verses)}
                           = VersesOf(shape, b, SignedVal(ChapterText(ref)),
                                      SignedVal(ends[1]), SignedVal(ends[2]))
                      /\ httpResp.verses # <<>>
                      /\ Ascending(httpResp.verses)
        /\ \A b \in Books : \A c \in 1..Len(shape[b.id]) :
             /\ \A v \in 1..shape[b.id][c] :
                  httpReq.arg = b.name \o <<" ">> \o NatStr(c) \o <<":">> \o NatStr(v)
                    => /\ httpResp.status = 200
                       /\ httpResp.book = b.id
                       /\ Len(httpResp.verses) = 1
                       /\ httpResp.verses[1] \in VersesOf(shape, b, c, v, v)
             /\ (/\ shape[b.id][c] >= 2
                 /\ httpReq.arg = b.name \o <<" ">> \o NatStr(c) \o <<":", "1", "-", "2">>)
                    => /\ httpResp.status = 200
                       /\ httpResp.book = b.id
                       /\ Len(httpResp.verses) = 2

\* "1 Ab 2:1-2" was answered with two verses of chapter 2 of the book "1 Ab"
C9_Witness ==
    /\ Answered("reference")
    /\ httpReq.arg = <<"1", " ", "A", "b", " ", "2", ":", "1", "-", "2">>
    /\ httpResp.status = 200
    /\ httpResp.book = 2
    /\ Len(httpResp.verses) = 2

\* the first of a non-empty set of books in canonical order
FirstInOrder(books) == CHOOSE b \in books : \A o \in books : b.order_number <= o.order_number

IsPrefixOf(p, s) == Len(p) <= Len(s) /\ \A i \in 1..Len(p) : Lower(p[i]) = Lower(s[i])

IsSubstringOf(p, s) ==
    \E k \in 0..(Len(s) - Len(p)) : \A i \in 1..Len(p) : Lower(p[i]) = Lower(s[k + i])

RankExact(text) ==
    {b \in Books : LowerStr(b.name) = LowerStr(text)
                   \/ LowerStr(b.abbreviation) = LowerStr(text)}

RankPrefix(text) ==
    {b \in Books : IsPrefixOf(text, b.name) \/ IsPrefixOf(text, b.abbreviation)}

RankSubstring(text) ==
    {b \in Books : IsSubstringOf(text, b.name) \/ IsSubstringOf(text, b.abbreviation)}

\* the book the ranked match names for text, or 0 when no rank has a match
RankedBook(text) ==
    IF RankExact(text) # {} THEN FirstInOrder(RankExact(text)).id
    ELSE IF RankPrefix(text) # {} THEN FirstInOrder(RankPrefix(text)).id
    ELSE IF RankSubstring(text) # {} THEN FirstInOrder(RankSubstring(text)).id
    ELSE 0

\* C10: book-name resolution is a ranked match: exact before prefix before
\* substring, the first book in canonical order within a rank, and not-found
\* only when no book matches at any rank.
C10_RankedMatch ==
    Answered("resolve") =>
        LET ranked == RankedBook(PotentialName(httpReq.arg))
        IN  IF ranked = 0 THEN httpResp.status = 404
            ELSE httpResp.status = 200 /\ httpResp.book = ranked

\* the range a..b a /verses/range request asked for
RangeStart == httpReq.arg[1]

RangeEnd == IF httpReq.arg[2] = 0 THEN httpReq.arg[1] ELSE httpReq.arg[2]

ChapterOfId(id) == (CHOOSE v \in Verses(shape) : v.id = id).chapter_id

BookOfId(id) == (CHOOSE c \in Chapters(shape) : c.id = ChapterOfId(id)).book_id

\* /verses/range displayed an existing range a <= b
Displayed ==
    /\ Answered("range")
    /\ httpResp.status = 200
    /\ RangeStart <= RangeEnd

\* resolving the displayed reference gives the verses a..b and nothing else,
\* whose display is the same reference again
RoundTrips ==
    \A r \in get_by_reference(shape, httpResp.reference) :
        /\ r.status = 200
        /\ [i \in 1..Len(r.verses) |-> r.verses[i].id]
              = [i \in 1..(RangeEnd - RangeStart + 1) |-> RangeStart + i - 1]
        /\ DisplayReference(Chapters(shape), Verses(shape),
                            r.verses[1].id, r.verses[Len(r.verses)].id)
              = httpResp.reference

\* C11 as stated: for all existing verse ids a <= b in the same book, the
\* display reference of (a, b) resolves to the verse range a..b again.
C11_Original ==
    Displayed /\ BookOfId(RangeStart) = BookOfId(RangeEnd) => RoundTrips

\* C11 as amended: for all existing verse ids a <= b in the same chapter, the
\* display reference of (a, b) resolves to the verse range a..b again, and
\* that range is displayed as the same reference.
C11_SameChapterRoundTrip ==
    Displayed /\ ChapterOfId(RangeStart) = ChapterOfId(RangeEnd) => RoundTrips

\* C11, its case: a range of more than one verse of a chapter was displayed
\* and resolves to itself
C11_Witness ==
    /\ Displayed
    /\ RangeStart < RangeEnd
    /\ ChapterOfId(RangeStart) = ChapterOfId(RangeEnd)
    /\ RoundTrips

(***************************************************************************)
(* Properties of the generation and import scripts.                        *)
(***************************************************************************)
\* the verse of a reference exists in the corpus
Resolves(book_name, chapter, verse) ==
    get_verse_id(ProphecyChapters, ProphecyVerses, book_name, chapter, verse) # 0

\* every reference of a record resolves: the start and the end of the
\* prophecy reference and of each fulfillment reference
AllReferencesResolve(prophecy) ==
    /\ Resolves(prophecy.prophecy_reference.book_name, prophecy.prophecy_reference.chapter,
                prophecy.prophecy_reference.verse_start)
    /\ Resolves(prophecy.prophecy_reference.book_name, prophecy.prophecy_reference.chapter,
                prophecy.prophecy_reference.verse_end)
    /\ \A i \in 1..Len(prophecy.fulfillment_references) :
           LET ref == prophecy.fulfillment_references[i]
           IN  /\ Resolves(ref.book_name, ref.chapter, ref.verse_start)
               /\ Resolves(ref.book_name, ref.chapter, ref.verse_end)

\* C14: a candidate with a reference that does not resolve is rejected as a
\* whole: every record the generation has accepted or written resolves in
\* all its references, and every row the import has made of a record carries
\* all the fulfillment references of that record.
C14_RejectedAsAWhole ==
    /\ \A prophecy \in Elements(gen.existing_prophecies) \cup Elements(jsonFile.prophecies) :
           AllReferencesResolve(prophecy)
    /\ \A i \in 1..Len(imp.results) :
           imp.results[i] # NoProphecy =>
               Len(imp.results[i].fulfillment_references)
                   = Len(imp.prophecies_data[i].fulfillment_references)

\* the deduplication key of a record: book, chapter, first and last verse of
\* the prophecy reference, and the first fifty characters of the claim,
\* case-folded
DedupKey(prophecy) ==
    <<prophecy.prophecy_reference.book_name, prophecy.prophecy_reference.chapter,
      prophecy.prophecy_reference.verse_start, prophecy.prophecy_reference.verse_end,
      [i \in 1..(IF Len(prophecy.claim) < 50 THEN Len(prophecy.claim) ELSE 50)
          |-> Lower(prophecy.claim[i])]>>

\* no two records of a list have the same deduplication key
NoTwoOfAKey(prophecies_list) ==
    \A i, j \in 1..Len(prophecies_list) :
        DedupKey(prophecies_list[i]) = DedupKey(prophecies_list[j]) => i = j

\* the candidate at the head of the loop has been handled in this step
Handled ==
    /\ gen.pc = "validate" /\ gen'.pc = "validate"
    /\ gen.new_prophecies # <<>>
    /\ gen'.new_prophecies = Tail(gen.new_prophecies)

\* a valid candidate is left out if a record with its key exists, and is
\* appended if none does
DedupStep ==
    Handled /\ validate_prophecy(ProphecyChapters, ProphecyVerses, Head(gen.new_prophecies))
        => LET prophecy == Head(gen.new_prophecies)
               known == \E i \in 1..Len(gen.existing_prophecies) :
                            DedupKey(gen.existing_prophecies[i]) = DedupKey(prophecy)
           IN  gen'.existing_prophecies =
                   IF known THEN gen.existing_prophecies
                   ELSE Append(gen.existing_prophecies, prophecy)

\* C15: candidates are deduplicated by (book, chapter, verse start, verse
\* end, first fifty characters of the claim case-folded): the records never
\* hold two of one key, a valid candidate whose key is held is not appended,
\* and one whose key is not held (the same verse range with a claim that
\* differs within the first fifty characters included) is appended.
C15_DedupByKey ==
    /\ [](NoTwoOfAKey(gen.existing_prophecies) /\ NoTwoOfAKey(jsonFile.prophecies))
    /\ [][DedupStep]_vars

\* C15 witness: a run has skipped a duplicate and holds two records of the
\* same verse range whose claims differ within the first fifty characters.
C15_Witness ==
    /\ \E i \in 1..Len(gen.outcomes) : gen.outcomes[i] = "duplicate"
    /\ \E i, j \in 1..Len(gen.existing_prophecies) :
           /\ gen.existing_prophecies[i].prophecy_reference
                  = gen.existing_prophecies[j].prophecy_reference
           /\ DedupKey(gen.existing_prophecies[i]) # DedupKey(gen.existing_prophecies[j])

\* C16: generation re-run over its own output is idempotent at the level of
\* the deduplication key: whenever no run is in progress, after any number
\* of runs and crashes, the output holds no two records of one key and
\* still holds every record the last run loaded from it.
C16_RerunKeepsRecords ==
    ~GenRunning =>
        /\ NoTwoOfAKey(jsonFile.prophecies)
        /\ Elements(gen.loaded) \subseteq Elements(jsonFile.prophecies)

\* C17: the output is persisted after each book, and a crash at any point,
\* the persist step included, loses at most the book in flight: after a
\* crash the file holds every record of every save that completed.
C17_CrashLosesBookInFlightOnly ==
    gen.pc = "crashed" => saved \subseteq Elements(jsonFile.prophecies)

\* a candidate skipped and a later one appended, among the outcomes of a run
SkippedThenAdded(outcomes) ==
    \E i, j \in 1..Len(outcomes) :
        i < j /\ outcomes[i] # "added" /\ outcomes[j] = "added"

\* C18: a candidate that fails validation, deduplication or reference
\* resolution is skipped without aborting the run: when nothing kills the
\* scripts, a generation run or an import run that has started always comes
\* to rest, it rests at its end only, and at its end has handled every
\* candidate it received (every record it read).
C18_RunsComplete ==
    /\ []<>(~GenRunning /\ ~ImpRunning)
    /\ [](gen.pc \in {"idle", "generate", "validate", "dump", "done"})
    /\ [](imp.pc \in {"idle", "loop", "done"})
    /\ [](gen.pc = "done" => Len(gen.outcomes) = gen.received)
    /\ [](imp.pc = "done" =>
            /\ Len(imp.results) = Len(imp.prophecies_data)
            /\ imp.imported_count + imp.skipped_count = Len(imp.prophecies_data))

\* C18 witness: a generation run has ended after skipping a candidate and
\* appending a later one, and an import run has ended after skipping a record
\* and importing a later one.
C18_Witness ==
    /\ gen.pc = "done" /\ SkippedThenAdded(gen.outcomes)
    /\ imp.pc = "done"
    /\ \E i, j \in 1..Len(imp.results) :
           i < j /\ imp.results[i] = NoProphecy /\ imp.results[j] # NoProphecy

\* the category and every fulfillment type of a record are enumerated
Enumerated(prophecy) ==
    /\ prophecy.category \in {"ministry_mission", "kingdom_reign"}
    /\ \A i \in 1..Len(prophecy.fulfillment_references) :
           prophecy.fulfillment_references[i].fulfillment_type \in {"direct", "typological"}

\* a candidate that is not enumerated is reported as invalid and not appended
RejectStep ==
    Handled /\ ~Enumerated(Head(gen.new_prophecies))
        => /\ gen'.existing_prophecies = gen.existing_prophecies
           /\ gen'.outcomes = Append(gen.outcomes, "invalid")

\* C19: a candidate whose category or whose fulfillment type is not one of
\* the enumerated values is rejected and never appended, and every record
\* of the output has an enumerated category and enumerated fulfillment types.
C19_EnumeratedOnly ==
    /\ [](\A prophecy \in Elements(gen.existing_prophecies) \cup Elements(jsonFile.prophecies) :
            Enumerated(prophecy))
    /\ [][RejectStep]_vars

\* C19 witness: the candidate handled last has a fulfillment type that is
\* not enumerated, and was reported as invalid.
C19_Witness ==
    /\ gen.outcomes # <<>>
    /\ gen.outcomes[Len(gen.outcomes)] = "invalid"
    /\ gen.prophecy.category \in ProphecyCategories
    /\ \E i \in 1..Len(gen.prophecy.fulfillment_references) :
           gen.prophecy.fulfillment_references[i].fulfillment_type \notin FulfillmentTypes

(***************************************************************************)
(* Properties of the Analyzer's invocations.                               *)
(***************************************************************************)
\* the request of client c has invoked the Analyzer, or is about to
AnalyzerInvoked(c) ==
    IF req[c].endpoint = "summary"
    THEN \/ pc[c] = "analyzer"
         \/ pc[c] = "done" /\ resp[c].status \in {200, 500} /\ ~resp[c].cached
    ELSE /\ req[c].endpoint = "consensus"
         /\ pc[c] = "done" /\ resp[c].status \in {200, 500}
         /\ Len(loc[c].existing_analyses) > Len(CachedAnalyses(c))

\* the perspectives the request of client c passes to the Analyzer
PassedToAnalyzer(c) ==
    IF req[c].endpoint = "summary" THEN Elements(req[c].perspectives)
    ELSE Elements(loc[c].missing_perspectives)

\* the keys of the stored perspectives the request of client c read
StoredKeysRead(c) == DOMAIN loc[c].cached_perspectives

\* C20: the Analyzer is never invoked for a perspective the request found
\* stored: in the summary path and in the consensus path the perspectives
\* passed to the Analyzer are disjoint from the stored keys the request read,
\* and a request whose perspectives are all stored invokes it for none.
C20_AnalyzerOnlyForMissing ==
    \A c \in Clients :
        /\ AnalyzerInvoked(c) => PassedToAnalyzer(c) \cap StoredKeysRead(c) = {}
        /\ pc[c] \in {"analyzer", "done"} /\ req[c].perspectives # <<>>
              /\ Elements(req[c].perspectives) \subseteq StoredKeysRead(c)
              => ~AnalyzerInvoked(c)

\* C20 witness: a consensus request has found some of its perspectives
\* stored and has had the Analyzer generate the others.
C20_Witness ==
    \E c \in Clients :
        /\ req[c].endpoint = "consensus" /\ AnalyzerInvoked(c)
        /\ resp[c].status = 200
        /\ StoredKeysRead(c) \cap Elements(req[c].perspectives) # {}
        /\ PassedToAnalyzer(c) # {}

(***************************************************************************)
(* Properties of the writes to the analysis cache.                         *)
(***************************************************************************)
\* this step ends the summary request of client c with the answer made of a
\* complete response of the Analyzer: every analysis was there to convert
CompleteGeneration(c) ==
    /\ pc[c] = "analyzer" /\ pc'[c] = "done"
    /\ req[c].endpoint = "summary"
    /\ resp'[c].status = 200 /\ ~resp'[c].cached
    /\ DOMAIN resp'[c].perspectives \subseteq ValidPerspectives

\* this step ends the summary request of client c with a failure
FailedGeneration(c) ==
    /\ pc[c] = "analyzer" /\ pc'[c] = "done"
    /\ resp'[c].status = 500

\* C21: the cache is written only after the Analyzer has returned a complete
\* response: a step that changes the cache is the end of a summary request
\* whose analyses were all returned and converted, and a summary request
\* that fails in or after the Analyzer call, or is still waiting for it,
\* leaves every entry as it was.
C21_WritesAfterCompleteResponse ==
    /\ [][summaries' # summaries => \E c \in Clients : CompleteGeneration(c)]_vars
    /\ [][(\E c \in Clients : FailedGeneration(c)) => summaries' = summaries]_vars

\* C21 witness: a summary request has failed in the conversion of the
\* Analyzer's response while another is waiting for the Analyzer, and the
\* cache is as it started.
C21_Witness ==
    /\ summaries \in InitialCaches
    /\ \E c, o \in Clients :
           /\ req[c].endpoint = "summary" /\ pc[c] = "done" /\ resp[c].status = 500
           /\ loc[c].text_hash # <<>>
           /\ pc[o] = "analyzer"

\* the key of an entry
KeyOf(entry) ==
    <<entry.verse_range_start, entry.verse_range_end, entry.selected_text_hash>>

\* every entry is kept under its key with at least the perspective keys it had
EntriesKept ==
    /\ Len(summaries') >= Len(summaries)
    /\ \A i \in 1..Len(summaries) :
           /\ KeyOf(summaries'[i]) = KeyOf(summaries[i])
           /\ DOMAIN summaries[i].perspectives \subseteq DOMAIN summaries'[i].perspectives

\* C22: across any sequence of summary, question and consensus requests no
\* entry of the analysis cache is deleted or wholly replaced, and the set of
\* perspective keys of an entry never shrinks.
C22_EntriesNeverShrink == [][EntriesKept]_vars

\* C22 witness: a summary request that found an entry under its key has
\* generated analyses and committed, and the entry is still there.
C22_Witness ==
    \E c \in Clients :
        /\ Wrote(c) /\ loc[c].cached_summary # 0
        /\ loc[c].cached_summary \in 1..Len(summaries)
        /\ DOMAIN loc[c].cached_perspectives
               \subseteq DOMAIN summaries[loc[c].cached_summary].perspectives

\* the handler of client c takes this step
Moves(c) == <<pc[c], req[c], loc[c], resp[c]>> # <<pc'[c], req'[c], loc'[c], resp'[c]>>

\* the entry a lookup reached was stored for the text the request read
ReachedForTextRead ==
    \A c \in Clients :
        loc[c].cached_summary # 0 =>
            /\ loc[c].cached_summary \in 1..Len(summaries)
            /\ KeyOf(summaries[loc[c].cached_summary])
                   = <<req[c].verse_range_start, req[c].verse_range_end,
                       generate_text_hash(loc[c].verse_text)>>

\* two texts of a range have two digests
DigestsDiffer ==
    \A t, u \in HashedTexts : t # u => generate_text_hash(t) # generate_text_hash(u)

\* an entry is changed by no request that read another text than the one the
\* entry is stored for, and by no edit
OtherTextsUntouched ==
    \A i \in 1..Len(summaries) :
        \/ /\ i <= Len(summaries')
           /\ summaries'[i] = summaries[i]
        \/ \E c \in Clients :
               Moves(c) /\ loc'[c].text_hash = summaries[i].selected_text_hash

\* a request that missed and generated creates the entry of the digest of the
\* text it read
MissCreatesEntry ==
    \A c \in Clients :
        CompleteGeneration(c) /\ loc[c].cached_summary = 0 =>
            /\ Len(summaries') = Len(summaries) + 1
            /\ KeyOf(summaries'[Len(summaries')])
                   = <<req[c].verse_range_start, req[c].verse_range_end,
                       generate_text_hash(loc[c].verse_text)>>

\* C23: after the text of a verse of a range is edited, a request for the
\* range does not reach the entry stored for the old text: the entry a lookup
\* reaches has the digest of the text the request read, two texts have two
\* digests, a request that misses and generates creates an entry under the
\* digest of the text it read, and the entry of the old text stays as it is.
C23_EditMakesOldEntryUnreachable ==
    /\ [](ReachedForTextRead /\ DigestsDiffer)
    /\ [][OtherTextsUntouched /\ MissCreatesEntry]_vars

\* C23 witness: the text of a verse of the seeded entry's range was edited,
\* a summary request for the range then missed, and its entry is stored
\* under the new digest next to the seeded entry.
C23_Witness ==
    /\ edits = 1
    /\ Len(summaries) = 2
    /\ summaries[1] = SeededSummary
    /\ \E c \in Clients :
           /\ Wrote(c) /\ loc[c].cached_summary = 0
           /\ req[c].verse_range_start = 1 /\ req[c].verse_range_end = 2
           /\ KeyOf(summaries[2]) = <<1, 2, generate_text_hash(loc[c].verse_text)>>
           /\ KeyOf(summaries[2]) # KeyOf(summaries[1])

\* C27: the analysis cache holds at most one entry for each (verse range
\* start, verse range end, text hash), whatever the interleaving of the
\* summary requests.
C27_OneEntryPerKey ==
    \A i, j \in 1..Len(summaries) :
        KeyOf(summaries[i]) = KeyOf(summaries[j]) => i = j

\* C28: the perspective keys a summary request writes are the perspectives
\* it asked the Analyzer for, whatever the Analyzer returned.
C28_KeysWrittenAreKeysAsked ==
    \A c \in Clients :
        Wrote(c) => DOMAIN resp[c].perspectives = Requested(c)

\* the perspectives the answer of client c has the placeholder for
PlaceholdersOf(c) ==
    {k \in DOMAIN resp[c].perspectives :
        resp[c].perspectives[k] = [response_text |-> Placeholder(k).response_text,
                                   cross_references |-> Placeholder(k).cross_references]}

\* C24: when the Analyzer fails for a requested perspective, the summary
\* request succeeds with the placeholder for it, and the placeholder is
\* stored under the key of the request like a genuine result, where a later
\* request for the perspective finds it.
C24_PlaceholderIsCached ==
    \A c \in Clients :
        Wrote(c) =>
            \A k \in PlaceholdersOf(c) :
                \E row \in RowsOfKey(c) :
                    /\ k \in DOMAIN row.perspectives
                    /\ row.perspectives[k] = resp[c].perspectives[k]

\* C29: the question endpoint and the scholarly-consensus endpoint leave the
\* analysis cache unchanged: no step of a question or consensus request,
\* whatever its answer, changes the table of entries.
C29_QuestionAndConsensusReadOnly ==
    [][\A c \in Clients :
          Moves(c) /\ req'[c].endpoint \in {"question", "consensus"}
              => summaries' = summaries]_vars

\* C29 witness: a question request and a consensus request that had the
\* Analyzer generate a missing perspective have both been answered 200, and
\* the cache is empty as it started.
C29_Witness ==
    /\ summaries = <<>>
    /\ \E c, o \in Clients :
           /\ req[c].endpoint = "question" /\ pc[c] = "done" /\ resp[c].status = 200
           /\ DOMAIN resp[c].perspectives # {}
           /\ req[o].endpoint = "consensus" /\ pc[o] = "done" /\ resp[o].status = 200
           /\ loc[o].missing_perspectives # <<>>

(***************************************************************************)
(* Properties of the rows of messianic_prophecies.                         *)
(***************************************************************************)
\* id is the id of the verse of that book name, chapter number and verse
\* number in the corpus
RefersTo(id, book_name, chapter, verse) ==
    \E v \in ProphecyVerses :
        /\ v.id = id
        /\ v.verse_number = verse
        /\ \E c \in ProphecyChapters :
               /\ c.id = v.chapter_id
               /\ c.chapter_number = chapter
               /\ BookTable[c.book_id].name = book_name

\* the fulfillment references of a row carry the ids of their fields
IdsMatchFields(row) ==
    \A j \in 1..Len(row.fulfillment_references) :
        LET ref == row.fulfillment_references[j]
        IN  /\ RefersTo(ref.verse_start_id, ref.book_name, ref.chapter, ref.verse_start)
            /\ RefersTo(ref.verse_end_id, ref.book_name, ref.chapter, ref.verse_end)

\* C25: every fulfillment reference of every row of messianic_prophecies, in
\* every state a reader can see and in the rows added and not yet committed,
\* has for verse_start_id the id of the verse (book_name, chapter,
\* verse_start) of the corpus and for verse_end_id the id of the verse
\* (book_name, chapter, verse_end).
C25_ResolvedIdsMatchFields ==
    /\ \A i \in 1..Len(prophecies) : IdsMatchFields(prophecies[i])
    /\ \A i \in 1..Len(imp.session) : IdsMatchFields(imp.session[i])

\* C25 witness: an import has committed a row made of a record with two
\* fulfillment references, of which one did not resolve; the row carries the
\* other with its ids.
C25_Witness ==
    /\ imp.pc = "done"
    /\ \E i \in 1..Len(imp.results) :
           /\ imp.results[i] # NoProphecy
           /\ Len(imp.prophecies_data[i].fulfillment_references) = 2
           /\ Len(imp.results[i].fulfillment_references) = 1
           /\ imp.results[i].fulfillment_references[1].verse_start_id # 0
           /\ \E k \in 1..Len(prophecies) : prophecies[k] = imp.results[i]

\* the prophecy range of a record of the file resolves
RangeResolved(prophecy_data) ==
    /\ \E id \in VerseIds(ProphecyVerses) :
           RefersTo(id, prophecy_data.prophecy_reference.book_name,
                    prophecy_data.prophecy_reference.chapter,
                    prophecy_data.prophecy_reference.verse_start)
    /\ \E id \in VerseIds(ProphecyVerses) :
           RefersTo(id, prophecy_data.prophecy_reference.book_name,
                    prophecy_data.prophecy_reference.chapter,
                    prophecy_data.prophecy_reference.verse_end)

\* the row is the record of that candidate
RecordOf(row, prophecy_data) ==
    /\ row.claim = prophecy_data.claim
    /\ row.category = prophecy_data.category
    /\ RefersTo(row.prophecy_verse_start, prophecy_data.prophecy_reference.book_name,
                prophecy_data.prophecy_reference.chapter,
                prophecy_data.prophecy_reference.verse_start)
    /\ RefersTo(row.prophecy_verse_end, prophecy_data.prophecy_reference.book_name,
                prophecy_data.prophecy_reference.chapter,
                prophecy_data.prophecy_reference.verse_end)

\* C26: when an import run has completed, messianic_prophecies holds, in the
\* order of the file, exactly one row for each record of the file whose
\* prophecy range resolved, and nothing else: no row of an earlier run is
\* left, and a second run on the same file leaves the rows of the first.
C26_ReimportReplacesWholesale ==
    imp.pc = "done" =>
        LET resolved == SelectSeq(imp.prophecies_data, RangeResolved)
        IN  /\ Len(prophecies) = Len(resolved)
            /\ \A k \in 1..Len(resolved) : RecordOf(prophecies[k], resolved[k])

\* C26 witness: the import has run twice on the same file, which nothing
\* wrote in between; one of its two records has a prophecy range that does
\* not resolve, and the table holds one row.
C26_Witness ==
    /\ imp.pc = "done"
    /\ imp.runs = 2
    /\ gen.runs = 0
    /\ imp.prophecies_data = ForeignFile.prophecies
    /\ Len(prophecies) = 1

(***************************************************************************)
(* Properties of the search cache.                                         *)
(***************************************************************************)
\* the grouped-search request of client c, for a query long enough, has its
\* answer
Searched(c) ==
    /\ pc[c] = "done"
    /\ req[c].endpoint = "search_grouped"
    /\ Len(loc[c].query) >= 3

\* C30: grouped-search requests for the same uncached query that run
\* concurrently all complete with the search result: every grouped-search
\* request for a query of three characters or more is answered 200 with the
\* result of the query, the search cache holds at most one row for a query
\* hash, and a request that finds the row is answered with its result.
C30_ConcurrentSearchesSucceed ==
    /\ \A i, j \in 1..Len(searchCache) :
           searchCache[i].query_hash = searchCache[j].query_hash => i = j
    /\ \A c \in Clients :
           Searched(c) =>
               /\ resp[c].status = 200
               /\ resp[c].result.query = loc[c].query
               /\ resp[c].result.total_verses
                      = Cardinality(MatchingVerses(verseText, loc[c].query))
               /\ \E i \in 1..Len(searchCache) :
                      /\ searchCache[i].query_hash = loc[c].query_hash
                      /\ resp[c].cached => searchCache[i].result_data = resp[c].result

====
